---- MODULE Spec2Model ----
(***************************************************************************)
(* Model of the Discord outbound path of solace-ai-connector-slack:        *)
(* DiscordOutput.invoke / send_message (the producer side, broker thread)  *)
(* and DiscordSender (its own thread running one asyncio event loop):      *)
(* do_messages, send_message and __send_message.                           *)
(*                                                                         *)
(* The asyncio loop is cooperative: a coroutine runs without interruption  *)
(* from one suspension point to the next, so every action below is one     *)
(* such run.  The loop's ready queue is FIFO and asyncio.Lock is fair      *)
(* (first waiter first); both are modelled as the sequences they are.      *)
(***************************************************************************)
EXTENDS Integers, Sequences, FiniteSets, TLC

\* ------------------------------------------------------------------ bounds
\* number of invoke() calls the producer makes
MaxChunks == 3
\* number of distinct response ids (content.uuid)
NumUuids == 2
\* number of throttle intervals the wall clock is followed for
MaxTicks == 2
\* number of invoke() calls in the specifications that follow short runs
MaxShortRun == 2
\* number of interaction events the gateway delivers
MaxInteractions == 2
\* wall clock (seconds since the epoch) when the sender starts; any real
\* clock is far beyond the throttle interval
StartTime == 5000

\* ------------------------------------------------------- program constants
\* discord_output.py:368   now - state.last_edit > 1_200
THROTTLE_INTERVAL == 1200
\* discord_output.py:380   len(full) > 2000
MAX_BODY_LEN == 2000
\* rjsf_to_slack_blocks.py:139   len(value) > 100
LONG_TEXT_LEN == 100

Uuids == 1..NumUuids

\* discord_output.py:162 and :164
COMPLETE_TEXT == ":checkered_flag: Response complete"
THINKING_PREFIX == ":thinking_face: "
\* discord_output.py:379
\* one character, standing for U+200B (zero width space)
PLACEHOLDER == "_"

\* ------------------------------------------------------------ input values
\* content.text is None, a str, or a list of parts
None == [kind |-> "none", parts |-> <<>>]
Str(s) == [kind |-> "str", parts |-> <<s>>]
List(p) == [kind |-> "list", parts |-> p]

\* content.files: a list of {name, content}; decodable = content is valid base64
NoFiles == <<>>
OneFile == <<[name |-> "a.txt", decodable |-> TRUE]>>

\* the data handed to invoke: content.uuid, content.text, content.files and
\* the flags; message_info.channel is given as the class of the object that
\* get_channel resolves it to ("missing" when the data names no channel)
Chunk(u, text, files, last, complete) ==
  [uuid |-> u, text |-> text, files |-> files, channel |-> "TextChannel",
   status_update |-> FALSE, response_complete |-> complete, last_chunk |-> last]

\* The producer's inputs.  The first response streams growing text (an empty
\* chunk, a short one, a longer one with a file), ends with a last chunk and is
\* completed; every other response has one streamed chunk and a last chunk.
FirstInputs ==
  {Chunk(1, Str(""), NoFiles, FALSE, FALSE),
   Chunk(1, Str("Hel"), NoFiles, FALSE, FALSE),
   Chunk(1, Str("Hello"), OneFile, FALSE, FALSE),
   Chunk(1, List(<<"Hello", "", " world">>), NoFiles, TRUE, FALSE),
   Chunk(1, None, NoFiles, FALSE, TRUE)}

OtherInputs ==
  {Chunk(u, Str("Hi"), NoFiles, FALSE, FALSE) : u \in Uuids \ {1}}
  \cup {Chunk(u, Str("Bye"), NoFiles, TRUE, FALSE) : u \in Uuids \ {1}}

Inputs == FirstInputs \cup OtherInputs

VARIABLES
  feedback_endpoint,   \* DiscordSender.feedback_endpoint is not None
  input_queue,         \* DiscordOutput.discord_message_response_queue
  produced,            \* number of invoke() calls so far
  ready,               \* the event loop's FIFO of runnable send_message tasks
  tasks,               \* the send_message tasks, in creation order
  states,              \* the State objects ever constructed (the heap)
  state_by_uuid,       \* DiscordSender.state_by_uuid: uuid -> index in states, 0 = absent
  messages,            \* the platform's messages, indexed by handle
  clock,               \* the latest datetime.now().timestamp() read so far
  interactions,        \* the on_interaction tasks, in the order of the events
  request,             \* the form and task id handed to RJSFToSlackBlocksConverter.convert
  blocks,              \* the blocks convert returned, <<>> before the call
  registry,            \* SlackBase._component_registry has "slackinput"
  submission,          \* the call of SlackBase.handle_form_submission
  feedback,            \* the call of a feedback action handler of SlackBase
  inbound,             \* the call of DiscordReceiver.handle_event
  invocation           \* the last call of DiscordOutput.invoke: its data and its result

\* the Slack side
slackVars == <<request, blocks, registry, submission, feedback>>

\* the Discord side
discordVars == <<feedback_endpoint, input_queue, produced, ready, tasks, states,
                 state_by_uuid, messages, clock, interactions, inbound,
                 invocation>>

\* the variables DiscordSender's message path leaves alone
otherVars == <<interactions, slackVars, inbound, invocation>>

vars == <<feedback_endpoint, input_queue, produced, ready, tasks, states,
          state_by_uuid, messages, clock, otherVars>>

\* ------------------------------------------------------------ pure helpers
\* (variant: a completed chunk keeps its text)
InvokeTextKept(d) ==
  IF d.response_complete THEN d.text
  ELSE IF d.status_update THEN Str(THINKING_PREFIX \o d.text.parts[1])
  ELSE d.text

\* DiscordOutput.invoke: the outgoing text
InvokeText(d) ==
  IF d.response_complete THEN Str(COMPLETE_TEXT)
  ELSE IF d.status_update THEN Str(THINKING_PREFIX \o d.text.parts[1])
  ELSE d.text

\* DiscordOutput.invoke: ":thinking_face: " + text raises unless text is a str
InvokeRaises(d) ==
  ~d.response_complete /\ d.status_update /\ d.text.kind # "str"

\* DiscordOutput.invoke: the dict it returns (the fields the sender reads)
Invoke(d) ==
  [uuid |-> d.uuid,
   text |-> InvokeText(d),
   files |-> d.files,
   channel |-> d.channel,
   status_update |-> (d.response_complete \/ d.status_update),
   last_chunk |-> d.last_chunk,
   response_complete |-> d.response_complete]

\* __send_message: messages normalised to a list
Messages(text) == IF text.kind = "none" THEN <<>> ELSE text.parts

\* __send_message: the parts concatenated, empty parts skipped
RECURSIVE ConcatText(_)
ConcatText(parts) ==
  IF parts = <<>> THEN ""
  ELSE IF Head(parts) = "" THEN ConcatText(Tail(parts))
  ELSE Head(parts) \o ConcatText(Tail(parts))

\* (variant: empty text is handed on as it is)
FullNoPlaceholder(text) ==
  IF Len(text) > MAX_BODY_LEN THEN SubSeq(text, 1, MAX_BODY_LEN) ELSE text

\* (variant: the text is handed on whole)
FullUntruncated(text) == IF text = "" THEN PLACEHOLDER ELSE text

\* __send_message: the body handed to send/edit
Full(text) ==
  LET full == IF text = "" THEN PLACEHOLDER ELSE text
  IN IF Len(full) > MAX_BODY_LEN THEN SubSeq(full, 1, MAX_BODY_LEN) ELSE full

\* (variant: whatever get_channel returns is posted to)
PostableAlways(channel) == TRUE

\* __send_message: isinstance(text_channel, (TextChannel, Thread))
Postable(channel) == channel \in {"TextChannel", "Thread"}

\* __send_message: self.app.get_channel(channel) looks the id up in a dict and
\* raises TypeError for an id that cannot be hashed
ResolveRaises(channel) == channel = "unhashable"

\* (variant: the last chunk is not exempt from the stale check)
StaleAlsoLast(text, st, last_chunk) == Len(text) <= Len(st.text)

\* __send_message: the stale check
Stale(text, st, last_chunk) == Len(text) <= Len(st.text) /\ ~last_chunk

\* (variant: the terminal flags do not bypass the throttle)
ThrottleTimeOnly(c, now, st) == now - st.last_edit > THROTTLE_INTERVAL

\* (variant: the time of the last edit is not subtracted)
ThrottleNoBase(c, now, st) ==
  c.last_chunk \/ c.response_complete \/ now > THROTTLE_INTERVAL

\* (variant: the interval itself is already enough)
ThrottleInclusive(c, now, st) ==
  c.last_chunk \/ c.response_complete \/ now - st.last_edit >= THROTTLE_INTERVAL

\* __send_message: the throttle condition
ThrottleOpen(c, now, st) ==
  c.last_chunk \/ c.response_complete \/ now - st.last_edit > THROTTLE_INTERVAL

\* (variant: the last chunk gets the controls too)
HasViewOnLast(c) == (c.response_complete \/ c.last_chunk) /\ feedback_endpoint

\* (variant: the controls are built without an endpoint to post to)
HasViewNoEndpoint(c) == c.response_complete

\* __send_message: view is built iff response_complete and an endpoint is set
HasView(c) == c.response_complete /\ feedback_endpoint

\* (variant: a new State is stamped with the time of its construction)
NewStateStamped(u) ==
  [uuid |-> u, text |-> "", last_edit |-> clock, locked |-> FALSE, waiters |-> <<>>,
   active |-> 0]

\* send_message: State(text="", last_edit=0, lock=asyncio.Lock(), active=None)
NewState(u) ==
  [uuid |-> u, text |-> "", last_edit |-> 0, locked |-> FALSE, waiters |-> <<>>,
   active |-> 0]

\* (variant: the wrong field is tested, not state.text instead of not state.active)
NeedsSendByText(st) == st.text = ""

\* __send_message: not state.active, so the render is a send and not an edit
NeedsSend(st) == st.active = 0

\* (variant: the lock excludes nobody, as a lock made anew for every call would)
LockFreeAlways(st) == TRUE

\* asyncio.Lock.acquire takes the lock at once iff it is free and nobody waits
LockFree(st) == ~st.locked /\ st.waiters = <<>>

NewTask(c) ==
  [chunk |-> c, pc |-> "ready", state |-> 0, now |-> 0, call |-> "none",
   body |-> "", view |-> FALSE, handle |-> 0, ok |-> TRUE]

\* ------------------------------------------------------------------- Init
Init ==
  /\ feedback_endpoint \in BOOLEAN
  /\ input_queue = <<>>
  /\ produced = 0
  /\ ready = <<>>
  /\ tasks = <<>>
  /\ states = <<>>
  /\ state_by_uuid = [u \in Uuids |-> 0]
  /\ messages = <<>>
  /\ clock = StartTime
  /\ interactions = <<>>
  /\ request = [form |-> <<>>, task_id |-> <<>>]
  /\ blocks = <<>>
  /\ registry = FALSE
  /\ submission = [pc |-> "idle"]
  /\ feedback = [pc |-> "idle"]
  /\ invocation = [pc |-> "idle"]
  /\ inbound = [pc |-> "idle"]

\* --------------------------------------------------------------- producer
\* DiscordOutput.invoke followed by DiscordOutput.send_message (broker thread)
Put(d) ==
  /\ produced < MaxChunks
  /\ produced' = produced + 1
  /\ input_queue' =
       IF InvokeRaises(d) \/ d.channel = "missing" THEN input_queue
       ELSE Append(input_queue, Invoke(d) @@ [seq |-> produced + 1])
  /\ UNCHANGED otherVars
  /\ UNCHANGED <<feedback_endpoint, ready, tasks, states, state_by_uuid,
                 messages, clock>>

\* ------------------------------------------------------------ do_messages
\* (variant: the queue is drained from its newest message)
RECURSIVE SpawnReversed(_, _)
SpawnReversed(tks, q) ==
  IF q = <<>> THEN tks
  ELSE SpawnReversed(Append(tks, NewTask(q[Len(q)])), SubSeq(q, 1, Len(q) - 1))

\* the tasks do_messages creates for the queued messages q, in queue order
RECURSIVE Spawn(_, _)
Spawn(tks, q) ==
  IF q = <<>> THEN tks ELSE Spawn(Append(tks, NewTask(Head(q))), Tail(q))

\* the new tasks' places in the loop's ready queue, in creation order
RECURSIVE Schedule(_, _, _)
Schedule(rdy, first, n) ==
  IF n = 0 THEN rdy ELSE Schedule(Append(rdy, first), first + 1, n - 1)

\* do_messages wakes from asyncio.sleep(0.01) and runs: get_nowait() and
\* create_task(send_message(message)) for every queued message, with no
\* suspension in between, until queue.Empty sends it back to sleep.  (With an
\* empty queue the run changes nothing.)
DoMessages ==
  /\ input_queue # <<>>
  /\ tasks' = Spawn(tasks, input_queue)
  /\ ready' = Schedule(ready, Len(tasks) + 1, Len(input_queue))
  /\ input_queue' = <<>>
  /\ UNCHANGED otherVars
  /\ UNCHANGED <<feedback_endpoint, produced, states, state_by_uuid, messages, clock>>

\* ------------------------------------------------- send_message and below
\* (variant: the lock is released on return only, not when the body raises)
ReleaseOnReturn(t, s, tks, sts, rdy, pc) ==
  LET w == sts[s].waiters
  IN IF pc = "failed"
     THEN /\ states' = sts
          /\ tasks' = [tks EXCEPT ![t].pc = pc]
          /\ ready' = rdy
     ELSE /\ states' = [sts EXCEPT ![s].locked = FALSE]
          /\ tasks' = IF w # <<>>
                      THEN [tks EXCEPT ![t].pc = pc, ![Head(w)].pc = "woken"]
                      ELSE [tks EXCEPT ![t].pc = pc]
          /\ ready' = IF w # <<>> THEN Append(rdy, Head(w)) ELSE rdy

\* async with state.lock, on exit: Lock.release() wakes the first waiter; the
\* task t ends in pc (return or raise).  tks, sts, rdy are the values the step
\* has computed so far.
Release(t, s, tks, sts, rdy, pc) ==
  LET w == sts[s].waiters
  IN /\ states' = [sts EXCEPT ![s].locked = FALSE]
     /\ tasks' = IF w # <<>>
                 THEN [tks EXCEPT ![t].pc = pc, ![Head(w)].pc = "woken"]
                 ELSE [tks EXCEPT ![t].pc = pc]
     /\ ready' = IF w # <<>> THEN Append(rdy, Head(w)) ELSE rdy

\* (variant: the time of the render is not recorded)
StampNever(st, now) == st

\* __send_message: state.last_edit = now
Stamp(st, now) == [st EXCEPT !.last_edit = now]

\* __send_message from its entry to its first suspension point or return,
\* run by task t holding the lock of State s
Enter(t, s, tks, sts, rdy, now) ==
  LET c == tks[t].chunk
      st == sts[s]
      text == ConcatText(Messages(c.text))
      tks1 == [tks EXCEPT ![t].now = now]
      sts1 == [sts EXCEPT ![s] = Stamp(st, now)]
  IN IF Stale(text, st, c.last_chunk)
     THEN Release(t, s, tks1, sts, rdy, "done")
     ELSE IF ~ThrottleOpen(c, now, st)
     THEN Release(t, s, tks1, sts, rdy, "done")
     ELSE IF ResolveRaises(c.channel)
     THEN Release(t, s, tks1, sts1, rdy, "failed")
     ELSE IF ~Postable(c.channel)
     THEN Release(t, s, tks1, sts1, rdy, "done")
     ELSE /\ tasks' = [tks1 EXCEPT ![t].pc = IF NeedsSend(st) THEN "send" ELSE "edit",
                                   ![t].call = IF NeedsSend(st) THEN "send" ELSE "edit",
                                   ![t].handle = st.active,
                                   ![t].body = Full(text),
                                   ![t].view = HasView(c)]
          /\ states' = sts1
          /\ ready' = rdy

\* now = datetime.now().timestamp(), read on entry to __send_message: the
\* latest time read so far plus the time gone by since (the clock is taken not
\* to run backwards)
Elapsed == {0, THROTTLE_INTERVAL, THROTTLE_INTERVAL + 1}
MaxClock == StartTime + MaxTicks * (THROTTLE_INTERVAL + 1)

\* (variant: every response is filed under one key)
KeyShared(c) == 1

\* send_message: uuid = message.get_data("previous:uuid"), the key of the map
Key(c) == c.uuid

\* (variant: the State is constructed on every call)
KnownNever(k) == FALSE

\* send_message: uuid in self.state_by_uuid
Known(k) == state_by_uuid[k] # 0

\* a task's first run: look the State up or create it, then async with state.lock
TaskStart(t, d) ==
  /\ ready # <<>> /\ Head(ready) = t
  /\ t \in 1..Len(tasks) /\ tasks[t].pc = "ready"
  /\ clock + d <= MaxClock
  /\ LET k == Key(tasks[t].chunk)
         s == IF Known(k) THEN state_by_uuid[k] ELSE Len(states) + 1
         sts == IF Known(k) THEN states ELSE Append(states, NewState(k))
         tks == [tasks EXCEPT ![t].state = s]
     IN /\ state_by_uuid' = [state_by_uuid EXCEPT ![k] = s]
        /\ IF LockFree(sts[s])
           THEN /\ Enter(t, s, tks, [sts EXCEPT ![s].locked = TRUE], Tail(ready), clock + d)
                /\ clock' = clock + d
           ELSE /\ d = 0
                /\ tasks' = [tks EXCEPT ![t].pc = "acquire"]
                /\ states' = [sts EXCEPT ![s].waiters = Append(@, t)]
                /\ ready' = Tail(ready)
                /\ clock' = clock
  /\ UNCHANGED otherVars
  /\ UNCHANGED <<feedback_endpoint, input_queue, produced, messages>>

\* Lock.acquire resumes after its future was set: leave the waiters, take the lock
LockResume(t, d) ==
  /\ ready # <<>> /\ Head(ready) = t
  /\ t \in 1..Len(tasks) /\ tasks[t].pc = "woken"
  /\ clock + d <= MaxClock
  /\ clock' = clock + d
  /\ LET s == tasks[t].state
         w == states[s].waiters
         rest == SelectSeq(w, LAMBDA x : x # t)
     IN Enter(t, s, tasks, [states EXCEPT ![s].waiters = rest, ![s].locked = TRUE],
              Tail(ready), clock + d)
  /\ UNCHANGED otherVars
  /\ UNCHANGED <<feedback_endpoint, input_queue, produced, state_by_uuid,
                 messages>>

\* ------------------------------------------------------------ the platform
\* text_channel.send completes: a new message exists (ok) or the call raises
SendReturns(t, ok) ==
  /\ t \in 1..Len(tasks) /\ tasks[t].pc = "send"
  /\ messages' = IF ok
                 THEN Append(messages, [content |-> tasks[t].body, view |-> tasks[t].view,
                                        files |-> <<>>, uuid |-> tasks[t].chunk.uuid])
                 ELSE messages
  /\ tasks' = [tasks EXCEPT ![t].pc = "send_ret", ![t].ok = ok,
                            ![t].handle = IF ok THEN Len(messages) + 1 ELSE 0]
  /\ ready' = Append(ready, t)
  /\ UNCHANGED otherVars
  /\ UNCHANGED <<feedback_endpoint, input_queue, produced, states,
                 state_by_uuid, clock>>

\* (variant: an edit leaves the message's text as it was)
EditReturnsKeepsContent(t, ok) ==
  /\ t \in 1..Len(tasks) /\ tasks[t].pc = "edit"
  /\ messages' = IF ok
                 THEN [messages EXCEPT ![tasks[t].handle].view = tasks[t].view]
                 ELSE messages
  /\ tasks' = [tasks EXCEPT ![t].pc = "edit_ret", ![t].ok = ok]
  /\ ready' = Append(ready, t)
  /\ UNCHANGED otherVars
  /\ UNCHANGED <<feedback_endpoint, input_queue, produced, states,
                 state_by_uuid, clock>>

\* state.active.message.edit(content=full, view=view) completes or raises;
\* view=None removes the message's components
EditReturns(t, ok) ==
  /\ t \in 1..Len(tasks) /\ tasks[t].pc = "edit"
  /\ messages' = IF ok
                 THEN [messages EXCEPT ![tasks[t].handle].content = tasks[t].body,
                                       ![tasks[t].handle].view = tasks[t].view]
                 ELSE messages
  /\ tasks' = [tasks EXCEPT ![t].pc = "edit_ret", ![t].ok = ok]
  /\ ready' = Append(ready, t)
  /\ UNCHANGED otherVars
  /\ UNCHANGED <<feedback_endpoint, input_queue, produced, states,
                 state_by_uuid, clock>>

\* state.active.message.add_files(*files_to_add) completes or raises
AddFilesReturns(t, ok) ==
  /\ t \in 1..Len(tasks) /\ tasks[t].pc = "add_files"
  /\ messages' = IF ok
                 THEN [messages EXCEPT ![states[tasks[t].state].active].files =
                                          @ \o tasks[t].chunk.files]
                 ELSE messages
  /\ tasks' = [tasks EXCEPT ![t].pc = "add_ret", ![t].ok = ok]
  /\ ready' = Append(ready, t)
  /\ UNCHANGED otherVars
  /\ UNCHANGED <<feedback_endpoint, input_queue, produced, states,
                 state_by_uuid, clock>>

\* ---------------------------------------------------- __send_message, rest
\* base64.b64decode raises on a file whose content is not valid base64
AllDecodable(files) == \A i \in 1..Len(files) : files[i].decodable

\* __send_message after the send or edit: the files of the chunk
Attach(t, s, tks, sts, rdy) ==
  LET files == tks[t].chunk.files
  IN IF ~AllDecodable(files)
     THEN Release(t, s, tks, sts, rdy, "failed")
     ELSE IF files = <<>>
     THEN Release(t, s, tks, sts, rdy, "done")
     ELSE /\ tasks' = [tks EXCEPT ![t].pc = "add_files"]
          /\ states' = sts
          /\ ready' = rdy

\* the task resumes after text_channel.send: state.active = ActiveState(...)
SendResume(t) ==
  /\ ready # <<>> /\ Head(ready) = t
  /\ t \in 1..Len(tasks) /\ tasks[t].pc = "send_ret"
  /\ LET s == tasks[t].state
     IN IF tasks[t].ok
        THEN Attach(t, s, tasks, [states EXCEPT ![s].active = tasks[t].handle], Tail(ready))
        ELSE Release(t, s, tasks, states, Tail(ready), "failed")
  /\ UNCHANGED otherVars
  /\ UNCHANGED <<feedback_endpoint, input_queue, produced, state_by_uuid,
                 messages, clock>>

\* the task resumes after message.edit
EditResume(t) ==
  /\ ready # <<>> /\ Head(ready) = t
  /\ t \in 1..Len(tasks) /\ tasks[t].pc = "edit_ret"
  /\ LET s == tasks[t].state
     IN IF tasks[t].ok
        THEN Attach(t, s, tasks, states, Tail(ready))
        ELSE Release(t, s, tasks, states, Tail(ready), "failed")
  /\ UNCHANGED otherVars
  /\ UNCHANGED <<feedback_endpoint, input_queue, produced, state_by_uuid,
                 messages, clock>>

\* the task resumes after message.add_files and returns (or re-raises)
AddFilesResume(t) ==
  /\ ready # <<>> /\ Head(ready) = t
  /\ t \in 1..Len(tasks) /\ tasks[t].pc = "add_ret"
  /\ Release(t, tasks[t].state, tasks, states, Tail(ready),
             IF tasks[t].ok THEN "done" ELSE "failed")
  /\ UNCHANGED otherVars
  /\ UNCHANGED <<feedback_endpoint, input_queue, produced, state_by_uuid,
                 messages, clock>>

\* ------------------------------------------------------------------- Next
TaskIds == 1..MaxChunks

Next ==
  \/ \E d \in Inputs : Put(d)
  \/ DoMessages
  \/ \E t \in TaskIds, d \in Elapsed : TaskStart(t, d)
  \/ \E t \in TaskIds, d \in Elapsed : LockResume(t, d)
  \/ \E t \in TaskIds, ok \in BOOLEAN : SendReturns(t, ok)
  \/ \E t \in TaskIds, ok \in BOOLEAN : EditReturns(t, ok)
  \/ \E t \in TaskIds, ok \in BOOLEAN : AddFilesReturns(t, ok)
  \/ \E t \in TaskIds : SendResume(t)
  \/ \E t \in TaskIds : EditResume(t)
  \/ \E t \in TaskIds : AddFilesResume(t)

Spec == Init /\ [][Next]_vars

TypeOK ==
  /\ produced \in 0..MaxChunks
  /\ Len(tasks) <= MaxChunks

\* ------------------------------------- responses with empty and long texts
\* s repeated n times
RECURSIVE Repeat(_, _)
Repeat(s, n) ==
  IF n = 0 THEN ""
  ELSE IF n % 2 = 1 THEN s \o Repeat(s, n - 1)
  ELSE LET h == Repeat(s, n \div 2) IN h \o h

\* content.text values that concatenate to nothing, and values at and beyond
\* the platform's limit: of MAX_BODY_LEN characters, of one more, and a list
\* whose parts together exceed it
BodyInputs ==
  {Chunk(1, Str(""), NoFiles, FALSE, FALSE),
   Chunk(1, Str(""), NoFiles, TRUE, FALSE),
   Chunk(1, None, OneFile, TRUE, FALSE),
   Chunk(1, List(<<"", "">>), NoFiles, FALSE, FALSE),
   Chunk(1, Str("Hello"), NoFiles, FALSE, FALSE),
   Chunk(1, Str(Repeat("ab", MAX_BODY_LEN \div 2)), NoFiles, FALSE, FALSE),
   Chunk(1, Str(Repeat("x", MAX_BODY_LEN - 1) \o "yz"), NoFiles, FALSE, FALSE),
   Chunk(1, List(<<Repeat("ab", MAX_BODY_LEN \div 2), "", " and more">>), NoFiles, TRUE, FALSE),
   Chunk(1, None, NoFiles, FALSE, TRUE)}

\* the producer, followed for MaxShortRun calls
PutShort(d) == produced < MaxShortRun /\ Put(d)

NextBody ==
  \/ \E d \in BodyInputs : PutShort(d)
  \/ DoMessages
  \/ \E t \in TaskIds, d \in Elapsed : TaskStart(t, d)
  \/ \E t \in TaskIds, d \in Elapsed : LockResume(t, d)
  \/ \E t \in TaskIds, ok \in BOOLEAN : SendReturns(t, ok)
  \/ \E t \in TaskIds, ok \in BOOLEAN : EditReturns(t, ok)
  \/ \E t \in TaskIds, ok \in BOOLEAN : AddFilesReturns(t, ok)
  \/ \E t \in TaskIds : SendResume(t)
  \/ \E t \in TaskIds : EditResume(t)
  \/ \E t \in TaskIds : AddFilesResume(t)

SpecBody == Init /\ [][NextBody]_vars

\* ------------------------------------------- responses whose renders fail
\* a file whose content is not valid base64
BadFile == <<[name |-> "b.bin", decodable |-> FALSE]>>

\* response 1 streams a chunk, a chunk whose channel id cannot be looked up, a
\* chunk with a file that cannot be decoded, and a last chunk with a file;
\* response 2 has one chunk.  Every platform call may raise.
FailInputs ==
  {Chunk(1, Str("Hel"), NoFiles, FALSE, FALSE),
   [Chunk(1, Str("Hell"), NoFiles, FALSE, FALSE) EXCEPT !.channel = "unhashable"],
   Chunk(1, Str("Hello"), BadFile, FALSE, TRUE),
   Chunk(1, Str("Hello world"), OneFile, TRUE, FALSE),
   Chunk(2, Str("Hi"), NoFiles, TRUE, FALSE)}

NextFail ==
  \/ \E d \in FailInputs : Put(d)
  \/ DoMessages
  \/ \E t \in TaskIds, d \in Elapsed : TaskStart(t, d)
  \/ \E t \in TaskIds, d \in Elapsed : LockResume(t, d)
  \/ \E t \in TaskIds, ok \in BOOLEAN : SendReturns(t, ok)
  \/ \E t \in TaskIds, ok \in BOOLEAN : EditReturns(t, ok)
  \/ \E t \in TaskIds, ok \in BOOLEAN : AddFilesReturns(t, ok)
  \/ \E t \in TaskIds : SendResume(t)
  \/ \E t \in TaskIds : EditResume(t)
  \/ \E t \in TaskIds : AddFilesResume(t)

SpecFail == Init /\ [][NextFail]_vars

\* ------------------------------------- chunks that cannot be routed
\* message_info.channel names no channel ("missing"), an id get_channel does
\* not know ("none": it returns None), a channel that is not a text channel or
\* a thread, or an id that cannot be looked up; beside them a chunk to a text
\* channel and one to a thread
RouteInputs ==
  {Chunk(1, Str("Hel"), NoFiles, FALSE, FALSE),
   [Chunk(1, Str("Hello"), OneFile, TRUE, FALSE) EXCEPT !.channel = "none"],
   [Chunk(1, Str("Hello world"), OneFile, FALSE, FALSE) EXCEPT !.channel = "VoiceChannel"],
   [Chunk(1, Str("Hello"), OneFile, TRUE, FALSE) EXCEPT !.channel = "missing"],
   [Chunk(1, None, NoFiles, FALSE, TRUE) EXCEPT !.channel = "unhashable"],
   [Chunk(2, Str("Hi"), OneFile, TRUE, FALSE) EXCEPT !.channel = "Thread"]}

NextRoute ==
  \/ \E d \in RouteInputs : Put(d)
  \/ DoMessages
  \/ \E t \in TaskIds, d \in Elapsed : TaskStart(t, d)
  \/ \E t \in TaskIds, d \in Elapsed : LockResume(t, d)
  \/ \E t \in TaskIds, ok \in BOOLEAN : SendReturns(t, ok)
  \/ \E t \in TaskIds, ok \in BOOLEAN : EditReturns(t, ok)
  \/ \E t \in TaskIds, ok \in BOOLEAN : AddFilesReturns(t, ok)
  \/ \E t \in TaskIds : SendResume(t)
  \/ \E t \in TaskIds : EditResume(t)
  \/ \E t \in TaskIds : AddFilesResume(t)

SpecRoute == Init /\ [][NextRoute]_vars

\* --------------------------------- responses whose platform calls all succeed
\* response 1 streams two chunks, has a last chunk and is completed; response 2
\* is one last chunk without text
FlushInputs ==
  {Chunk(1, Str("Hel"), NoFiles, FALSE, FALSE),
   Chunk(1, Str("Hello"), OneFile, FALSE, FALSE),
   Chunk(1, List(<<"Hello", "", " world">>), NoFiles, TRUE, FALSE),
   Chunk(1, None, NoFiles, FALSE, TRUE),
   Chunk(2, Str(""), NoFiles, TRUE, FALSE)}

\* the event loop runs the callback at the head of its ready queue; do_messages
\* wakes from its sleep of 0.01 s
LoopStep ==
  \/ DoMessages
  \/ \E t \in TaskIds, d \in Elapsed : TaskStart(t, d)
  \/ \E t \in TaskIds, d \in Elapsed : LockResume(t, d)
  \/ \E t \in TaskIds : SendResume(t)
  \/ \E t \in TaskIds : EditResume(t)
  \/ \E t \in TaskIds : AddFilesResume(t)

\* a platform call returns its result
PlatformReturns ==
  \/ \E t \in TaskIds : SendReturns(t, TRUE)
  \/ \E t \in TaskIds : EditReturns(t, TRUE)
  \/ \E t \in TaskIds : AddFilesReturns(t, TRUE)

NextFlush ==
  \/ \E d \in FlushInputs : Put(d)
  \/ LoopStep
  \/ PlatformReturns

\* The loop of asyncio.run never leaves a ready callback unrun, and do_messages
\* polls the queue for ever; every platform call is taken to return.  The
\* producer may stop at any time.
SpecFlush ==
  Init /\ [][NextFlush]_vars /\ WF_vars(LoopStep) /\ WF_vars(PlatformReturns)

\* ------------------------------------------ a response whose render hangs
\* response 1 has one chunk; response 2 streams a chunk with a file and has a
\* last chunk
StallInputs ==
  {Chunk(1, Str("Hel"), NoFiles, FALSE, FALSE),
   Chunk(2, Str("Hi"), OneFile, FALSE, FALSE),
   Chunk(2, Str("Bye"), NoFiles, TRUE, FALSE)}

\* the response whose platform calls never return
Stalled == 1

\* a platform call of another response returns its result
OthersReturn ==
  \E t \in TaskIds :
     /\ t \in 1..Len(tasks) /\ tasks[t].chunk.uuid # Stalled
     /\ \/ SendReturns(t, TRUE)
        \/ EditReturns(t, TRUE)
        \/ AddFilesReturns(t, TRUE)

NextStall ==
  \/ \E d \in StallInputs : Put(d)
  \/ LoopStep
  \/ OthersReturn

\* The loop runs every ready callback and do_messages polls for ever; the
\* platform calls of the other responses return, those of the stalled response
\* never do.
SpecStall ==
  Init /\ [][NextStall]_vars /\ WF_vars(LoopStep) /\ WF_vars(OthersReturn)

\* ------------------------------------------------- the interaction router
\* An interaction as on_interaction reads it: interaction.type, whether
\* interaction.data is set, data["component_type"], data["custom_id"], and
\* interaction.message: the handle of one of the sender's messages, 0 for
\* None, -1 for a message that is not the sender's.
Interaction(type, has_data, component_type, custom_id, message) ==
  [type |-> type, has_data |-> has_data, component_type |-> component_type,
   custom_id |-> custom_id, message |-> message]

\* create_feedback_view: the custom ids of the two buttons of the view
FeedbackButtons == {"thumbs_up", "thumbs_down"}

\* a click on a button of the view of the sender's message h
ButtonClick(custom_id, h) == Interaction("component", TRUE, "button", custom_id, h)

\* the other interactions the client is handed: a button of some other message,
\* a thumbs button with no message, a select menu, a slash command, a component
\* interaction without data
OtherInteractions ==
  {ButtonClick("other", -1),
   ButtonClick("thumbs_down", 0),
   Interaction("component", TRUE, "select", "thumbs_up", -1),
   Interaction("application_command", TRUE, "none", "none", 0),
   Interaction("component", FALSE, "none", "none", -1)}

\* the task the client creates to run on_interaction(interaction); calls is the
\* sequence of the calls it has made
NewInteraction(x) ==
  [event |-> x, pc |-> "ready", ok |-> TRUE, calls |-> <<>>]

\* the client dispatches the event: a task running on_interaction is created.
\* A button of the sender's message can be clicked while the message has its view.
InteractionEvent(x) ==
  /\ Len(interactions) < MaxInteractions
  /\ x.message > 0 => x.message \in 1..Len(messages) /\ messages[x.message].view
  /\ interactions' = Append(interactions, NewInteraction(x))
  /\ ready' = Append(ready, 0 - (Len(interactions) + 1))
  /\ UNCHANGED <<slackVars, inbound, invocation>>
  /\ UNCHANGED <<feedback_endpoint, input_queue, produced, tasks, states,
                 state_by_uuid, messages, clock>>

\* on_interaction: the three early returns
Routed(x) == x.type = "component" /\ x.has_data /\ x.component_type = "button"

\* (variant: the two cases of the match are exchanged)
HandlerSwapped(custom_id) ==
  IF custom_id = "thumbs_up" THEN "thumbs_down_callback"
  ELSE IF custom_id = "thumbs_down" THEN "thumbs_up_callback"
  ELSE "none"

\* on_interaction: match custom_id
Handler(custom_id) ==
  IF custom_id = "thumbs_up" THEN "thumbs_up_callback"
  ELSE IF custom_id = "thumbs_down" THEN "thumbs_down_callback"
  ELSE "none"

\* on_interaction from the match on: the callback runs up to its await of
\* interaction.response.send_message (thumbs up) or send_modal (thumbs down);
\* the assert of thumbs_down_callback raises when no endpoint is configured
Match(i, its) ==
  LET h == Handler(its[i].event.custom_id)
  IN IF h = "none" THEN [its EXCEPT ![i].pc = "done"]
     ELSE IF h = "thumbs_down_callback" /\ ~feedback_endpoint
     THEN [its EXCEPT ![i].pc = "failed", ![i].calls = Append(@, h)]
     ELSE [its EXCEPT ![i].pc = "respond", ![i].calls = Append(@, h)]

\* the first run of on_interaction, up to await interaction.message.edit(view=None)
\* or, with no message, into the callback
OnInteraction(i) ==
  /\ ready # <<>> /\ Head(ready) = 0 - i
  /\ i \in 1..Len(interactions) /\ interactions[i].pc = "ready"
  /\ interactions' =
       IF ~Routed(interactions[i].event)
       THEN [interactions EXCEPT ![i].pc = "done"]
       ELSE IF interactions[i].event.message # 0
       THEN [interactions EXCEPT ![i].pc = "edit", ![i].calls = Append(@, "message.edit")]
       ELSE Match(i, interactions)
  /\ ready' = Tail(ready)
  /\ UNCHANGED <<slackVars, inbound, invocation>>
  /\ UNCHANGED <<feedback_endpoint, input_queue, produced, tasks, states,
                 state_by_uuid, messages, clock>>

\* interaction.message.edit(view=None) completes (the message has no components
\* any more) or raises
MessageEditReturns(i, ok) ==
  /\ i \in 1..Len(interactions) /\ interactions[i].pc = "edit"
  /\ messages' = IF ok /\ interactions[i].event.message > 0
                 THEN [messages EXCEPT ![interactions[i].event.message].view = FALSE]
                 ELSE messages
  /\ interactions' = [interactions EXCEPT ![i].pc = "edit_ret", ![i].ok = ok]
  /\ ready' = Append(ready, 0 - i)
  /\ UNCHANGED <<slackVars, inbound, invocation>>
  /\ UNCHANGED <<feedback_endpoint, input_queue, produced, tasks, states,
                 state_by_uuid, clock>>

\* on_interaction resumes after the edit: the match, or the exception ends the task
OnInteractionResume(i) ==
  /\ ready # <<>> /\ Head(ready) = 0 - i
  /\ i \in 1..Len(interactions) /\ interactions[i].pc = "edit_ret"
  /\ interactions' = IF interactions[i].ok THEN Match(i, interactions)
                     ELSE [interactions EXCEPT ![i].pc = "failed"]
  /\ ready' = Tail(ready)
  /\ UNCHANGED <<slackVars, inbound, invocation>>
  /\ UNCHANGED <<feedback_endpoint, input_queue, produced, tasks, states,
                 state_by_uuid, messages, clock>>

\* interaction.response.send_message / send_modal completes or raises
ResponseReturns(i, ok) ==
  /\ i \in 1..Len(interactions) /\ interactions[i].pc = "respond"
  /\ interactions' = [interactions EXCEPT ![i].pc = "respond_ret", ![i].ok = ok]
  /\ ready' = Append(ready, 0 - i)
  /\ UNCHANGED <<slackVars, inbound, invocation>>
  /\ UNCHANGED <<feedback_endpoint, input_queue, produced, tasks, states,
                 state_by_uuid, messages, clock>>

\* the callback and on_interaction return (or the exception ends the task)
CallbackResume(i) ==
  /\ ready # <<>> /\ Head(ready) = 0 - i
  /\ i \in 1..Len(interactions) /\ interactions[i].pc = "respond_ret"
  /\ interactions' = [interactions EXCEPT ![i].pc = IF interactions[i].ok THEN "done" ELSE "failed"]
  /\ ready' = Tail(ready)
  /\ UNCHANGED <<slackVars, inbound, invocation>>
  /\ UNCHANGED <<feedback_endpoint, input_queue, produced, tasks, states,
                 state_by_uuid, messages, clock>>

\* a response with a file that is completed (twice at most); both chunks are
\* terminal, so the time at which they are processed decides nothing and the
\* clock is left where it is
RouterChunks ==
  {Chunk(1, Str("Hello"), OneFile, TRUE, FALSE),
   Chunk(1, None, NoFiles, FALSE, TRUE)}

InteractionIds == 1..MaxInteractions

NextRouter ==
  \/ \E d \in RouterChunks : PutShort(d)
  \/ DoMessages
  \/ \E t \in TaskIds : TaskStart(t, 0)
  \/ \E t \in TaskIds : LockResume(t, 0)
  \/ \E t \in TaskIds, ok \in BOOLEAN : SendReturns(t, ok)
  \/ \E t \in TaskIds, ok \in BOOLEAN : EditReturns(t, ok)
  \/ \E t \in TaskIds, ok \in BOOLEAN : AddFilesReturns(t, ok)
  \/ \E t \in TaskIds : SendResume(t)
  \/ \E t \in TaskIds : EditResume(t)
  \/ \E t \in TaskIds : AddFilesResume(t)
  \/ \E id \in FeedbackButtons, h \in 1..MaxShortRun : InteractionEvent(ButtonClick(id, h))
  \/ \E x \in OtherInteractions : InteractionEvent(x)
  \/ \E i \in InteractionIds : OnInteraction(i)
  \/ \E i \in InteractionIds, ok \in BOOLEAN : MessageEditReturns(i, ok)
  \/ \E i \in InteractionIds : OnInteractionResume(i)
  \/ \E i \in InteractionIds, ok \in BOOLEAN : ResponseReturns(i, ok)
  \/ \E i \in InteractionIds : CallbackResume(i)

SpecRouter == Init /\ [][NextRouter]_vars

\* =========================================================== the Slack form
\* ------------------------------------------------------------------- JSON
\* Python values as the form and the payload carry them: None, a str, an int,
\* a bool, or a list of such values
PyNone == [kind |-> "none", s |-> "", n |-> 0, items |-> <<>>]
PyStr(s) == [kind |-> "str", s |-> s, n |-> 0, items |-> <<>>]
PyInt(n) == [kind |-> "int", s |-> "", n |-> n, items |-> <<>>]
PyBool(b) == [kind |-> "bool", s |-> "", n |-> IF b THEN 1 ELSE 0, items |-> <<>>]
PyList(items) == [kind |-> "list", s |-> "", n |-> 0, items |-> items]

DigitChars == <<"0", "1", "2", "3", "4", "5", "6", "7", "8", "9">>
Digits == {DigitChars[i] : i \in 1..10}

\* str(n) for an int n >= 0
RECURSIVE Decimal(_)
Decimal(n) ==
  IF n < 10 THEN DigitChars[n + 1] ELSE Decimal(n \div 10) \o DigitChars[(n % 10) + 1]

\* str(v) for the scalar values
PyToStr(v) ==
  IF v.kind = "str" THEN v.s
  ELSE IF v.kind = "int" THEN (IF v.n < 0 THEN "-" \o Decimal(0 - v.n) ELSE Decimal(v.n))
  ELSE IF v.kind = "bool" THEN (IF v.n = 1 THEN "True" ELSE "False")
  ELSE "None"

\* the i-th character of s, "" beyond its end
Ch(s, i) == IF i >= 1 /\ i <= Len(s) THEN SubSeq(s, i, i) ELSE ""

\* json.dumps of a str without its quotes: the quote and the backslash are
\* escaped (the texts followed here are printable ASCII)
RECURSIVE JsonEscape(_)
JsonEscape(s) ==
  IF Len(s) = 0 THEN ""
  ELSE LET c == Ch(s, 1)
       IN (IF c = "\"" THEN "\\\"" ELSE IF c = "\\" THEN "\\\\" ELSE c)
          \o JsonEscape(SubSeq(s, 2, Len(s)))

\* json.dumps of a value: a str, None, an int, or a list of values
RECURSIVE JsonValue(_)
RECURSIVE JsonItems(_)
JsonItems(items) ==
  IF items = <<>> THEN ""
  ELSE IF Len(items) = 1 THEN JsonValue(items[1])
  ELSE JsonValue(items[1]) \o ", " \o JsonItems(Tail(items))
JsonValue(v) ==
  IF v.kind = "str" THEN "\"" \o JsonEscape(v.s) \o "\""
  ELSE IF v.kind = "none" THEN "null"
  ELSE IF v.kind = "bool" THEN (IF v.n = 1 THEN "true" ELSE "false")
  ELSE IF v.kind = "list" THEN "[" \o JsonItems(v.items) \o "]"
  ELSE PyToStr(v)

\* json.dumps of a dict, given as the sequence of its items in insertion order
RECURSIVE JsonMembers(_)
JsonMembers(pairs) ==
  IF pairs = <<>> THEN ""
  ELSE LET m == "\"" \o JsonEscape(pairs[1].key) \o "\": " \o JsonValue(pairs[1].value)
       IN IF Len(pairs) = 1 THEN m ELSE m \o ", " \o JsonMembers(Tail(pairs))
Dumps(pairs) == "{" \o JsonMembers(pairs) \o "}"

\* json.loads, for the documents followed here: an object whose values are
\* strings, integers or null, or one such value alone.  A parse gives the value
\* and the position after it, or fails.
ParseFail == [ok |-> FALSE, kind |-> "none", s |-> "", pairs |-> <<>>, next |-> 0]
Parsed(kind, s, pairs, next) ==
  [ok |-> TRUE, kind |-> kind, s |-> s, pairs |-> pairs, next |-> next]

RECURSIVE SkipWs(_, _)
SkipWs(s, i) == IF Ch(s, i) = " " THEN SkipWs(s, i + 1) ELSE i

\* a string from the character after its opening quote
RECURSIVE ScanString(_, _, _)
ScanString(s, i, acc) ==
  LET c == Ch(s, i)
  IN IF c = "" THEN ParseFail
     ELSE IF c = "\"" THEN Parsed("str", acc, <<>>, i + 1)
     ELSE IF c = "\\"
     THEN IF Ch(s, i + 1) \in {"\"", "\\", "/"}
          THEN ScanString(s, i + 2, acc \o Ch(s, i + 1))
          ELSE ParseFail
     ELSE ScanString(s, i + 1, acc \o c)

RECURSIVE ScanDigits(_, _)
ScanDigits(s, i) == IF Ch(s, i) \in Digits THEN ScanDigits(s, i + 1) ELSE i

ParseScalar(s, i) ==
  IF Ch(s, i) = "\"" THEN ScanString(s, i + 1, "")
  ELSE IF Ch(s, i) \in Digits
  THEN IF Ch(s, i) = "0" /\ Ch(s, i + 1) \in Digits THEN ParseFail
       ELSE Parsed("int", SubSeq(s, i, ScanDigits(s, i) - 1), <<>>, ScanDigits(s, i))
  ELSE IF i + 3 <= Len(s) /\ SubSeq(s, i, i + 3) = "null" THEN Parsed("none", "", <<>>, i + 4)
  ELSE ParseFail

\* the members of an object from the position after "{" or ","
RECURSIVE ParseMembers(_, _, _)
ParseMembers(s, i, acc) ==
  LET k == IF Ch(s, SkipWs(s, i)) = "\"" THEN ScanString(s, SkipWs(s, i) + 1, "")
           ELSE ParseFail
  IN IF ~k.ok THEN ParseFail
     ELSE LET c == SkipWs(s, k.next)
          IN IF Ch(s, c) # ":" THEN ParseFail
             ELSE LET v == ParseScalar(s, SkipWs(s, c + 1))
                  IN IF ~v.ok THEN ParseFail
                     ELSE LET e == SkipWs(s, v.next)
                              pairs == Append(acc, [key |-> k.s, kind |-> v.kind, s |-> v.s])
                          IN IF Ch(s, e) = "}" THEN Parsed("object", "", pairs, e + 1)
                             ELSE IF Ch(s, e) = "," THEN ParseMembers(s, e + 1, pairs)
                             ELSE ParseFail

ParseValue(s, i) ==
  IF Ch(s, i) = "{"
  THEN IF Ch(s, SkipWs(s, i + 1)) = "}" THEN Parsed("object", "", <<>>, SkipWs(s, i + 1) + 1)
       ELSE ParseMembers(s, i + 1, <<>>)
  ELSE ParseScalar(s, i)

\* json.loads(s): ok is FALSE where it raises JSONDecodeError
Loads(s) ==
  LET v == ParseValue(s, SkipWs(s, 1))
  IN IF v.ok /\ SkipWs(s, v.next) = Len(s) + 1 THEN v ELSE ParseFail

\* dict.get(key) on a parsed object: the last member of that key, else None
DictGet(obj, key) ==
  LET ks == {i \in 1..Len(obj.pairs) : obj.pairs[i].key = key}
  IN IF ks = {} THEN [kind |-> "none", s |-> ""]
     ELSE LET i == CHOOSE x \in ks : \A y \in ks : y <= x
          IN [kind |-> obj.pairs[i].kind, s |-> obj.pairs[i].s]

\* the truth value of a value read from a document
Truthy(v) ==
  \/ v.kind = "str" /\ v.s # ""
  \/ v.kind = "int" /\ v.s # "0"

\* ---------------------------------------------- RJSFToSlackBlocksConverter
\* A field of the form: its name, its entry in schema["properties"] (type,
\* enum, enumNames, title, minimum, maximum, items, properties), its entry in
\* uiSchema (ui:widget, ui:placeholder), its value in formData and whether
\* schema["required"] names it.  An absent key is PyNone or a FALSE has_ flag.
Field(name, type) ==
  [name |-> name, type |-> type,
   has_enum |-> FALSE, enum |-> <<>>, has_enum_names |-> FALSE, enum_names |-> <<>>,
   title |-> PyNone, minimum |-> PyNone, maximum |-> PyNone,
   items_has_enum |-> FALSE, items_enum |-> <<>>,
   widget |-> "", placeholder |-> PyNone,
   value |-> PyNone, required |-> FALSE, props |-> <<>>]

\* an element of a block; an absent key is PyNone or an empty sequence
Element(type, action_id) ==
  [type |-> type, action_id |-> action_id,
   multiline |-> PyNone, placeholder |-> PyNone, initial_value |-> PyNone,
   is_decimal_allowed |-> PyNone, min_value |-> PyNone, max_value |-> PyNone,
   options |-> <<>>, initial_option |-> <<>>, initial_options |-> <<>>,
   value |-> ""]
NoElement == Element("", "")

Block(type, block_id, text, element) ==
  [type |-> type, block_id |-> block_id, text |-> text, element |-> element]

\* title = field_schema.get("title", field_name), starred when required
Title(f, name) ==
  (IF f.title.kind = "none" THEN name ELSE f.title.s) \o (IF f.required THEN " *" ELSE "")

BlockId(name, id) == "input_" \o name \o "_" \o id
ActionId(name) == "action_" \o name

\* (variant: only the uiSchema decides, the length of the value is not looked at)
MultilineByWidget(f) == f.widget = "textarea"

\* _convert_string_field: is_textarea
Multiline(f) ==
  \/ f.widget = "textarea"
  \/ f.value.kind = "str" /\ Len(f.value.s) > LONG_TEXT_LEN

\* _convert_string_field (the values followed here are None, str, int, bool)
ConvertStringField(f, name, id) ==
  <<Block("input", BlockId(name, id), Title(f, name),
          [Element("plain_text_input", ActionId(name)) EXCEPT
             !.multiline = PyBool(Multiline(f)),
             !.placeholder = f.placeholder,
             !.initial_value = IF f.value.kind = "none" THEN PyNone
                               ELSE PyStr(PyToStr(f.value))])>>

\* _convert_number_field
ConvertNumberField(f, name, id) ==
  <<Block("input", BlockId(name, id), Title(f, name),
          [Element("number_input", ActionId(name)) EXCEPT
             !.is_decimal_allowed = PyBool(f.type = "number"),
             !.min_value = f.minimum,
             !.max_value = f.maximum,
             !.initial_value = IF f.value.kind = "none" THEN PyNone
                               ELSE PyStr(PyToStr(f.value))])>>

\* _convert_boolean_field: one checkbox, ticked iff value is True
ConvertBooleanField(f, name, id) ==
  LET option == [text |-> PyStr(Title(f, name)), value |-> "true"]
  IN <<Block("input", BlockId(name, id), Title(f, name),
             [Element("checkboxes", ActionId(name)) EXCEPT
                !.options = <<option>>,
                !.initial_options = IF f.value = PyBool(TRUE) THEN <<option>> ELSE <<>>])>>

\* the options of an enum: the name is enumNames[i], or the value itself
\* where enumNames is absent, or str(value) where enumNames is too short
Options(enum, has_names, names) ==
  LET shown == IF has_names THEN names ELSE enum
  IN [i \in 1..Len(enum) |->
        [text |-> IF i <= Len(shown) THEN shown[i] ELSE PyStr(PyToStr(enum[i])),
         value |-> PyToStr(enum[i])]]

\* the first option whose value is str(value), as a sequence of 0 or 1 options
InitialOption(options, value) ==
  LET hits == {i \in 1..Len(options) : options[i].value = PyToStr(value)}
  IN IF value.kind = "none" \/ hits = {} THEN <<>>
     ELSE <<options[CHOOSE i \in hits : \A j \in hits : i <= j]>>

\* (variant: the uiSchema widget is not looked at)
ConvertEnumFieldSelect(f, name, id) ==
  LET options == Options(f.enum, f.has_enum_names, f.enum_names)
  IN <<Block("input", BlockId(name, id), Title(f, name),
             [Element("static_select", ActionId(name)) EXCEPT
                !.options = options,
                !.initial_option = InitialOption(options, f.value)])>>

\* _convert_enum_field
ConvertEnumField(f, name, id) ==
  LET options == Options(f.enum, f.has_enum_names, f.enum_names)
  IN <<Block("input", BlockId(name, id), Title(f, name),
             [Element(IF f.widget = "radio" THEN "radio_buttons" ELSE "static_select",
                      ActionId(name)) EXCEPT
                !.options = options,
                !.initial_option = InitialOption(options, f.value)])>>

\* ", ".join(str(v) for v in value)
RECURSIVE JoinStr(_)
JoinStr(items) ==
  IF items = <<>> THEN ""
  ELSE IF Len(items) = 1 THEN PyToStr(items[1])
  ELSE PyToStr(items[1]) \o ", " \o JoinStr(Tail(items))

\* the options matching the values of the list, in the order of the list
RECURSIVE InitialOptions(_, _)
InitialOptions(options, items) ==
  IF items = <<>> THEN <<>>
  ELSE InitialOption(options, items[1]) \o InitialOptions(options, Tail(items))

\* _convert_array_field
ConvertArrayField(f, name, id) ==
  IF f.items_has_enum
  THEN LET options == Options(f.items_enum, FALSE, <<>>)
       IN <<Block("input", BlockId(name, id), Title(f, name),
                  [Element("multi_static_select", ActionId(name)) EXCEPT
                     !.options = options,
                     !.initial_options = IF f.value.kind = "list"
                                         THEN InitialOptions(options, f.value.items)
                                         ELSE <<>>])>>
  ELSE <<Block("input", BlockId(name, id), Title(f, name),
               [Element("plain_text_input", ActionId(name)) EXCEPT
                  !.placeholder = PyStr("Enter comma-separated values"),
                  !.initial_value = IF f.value.kind = "list"
                                    THEN PyStr(JoinStr(f.value.items))
                                    ELSE PyNone])>>

\* the number of uuid4() calls made for a sequence of fields
RECURSIVE UuidCalls(_)
UuidCalls(fields) ==
  IF fields = <<>> THEN 0
  ELSE (IF Head(fields).has_enum \/ Head(fields).type # "object" THEN 1
        ELSE UuidCalls(Head(fields).props))
       + UuidCalls(Tail(fields))

\* _convert_field for each of the fields in turn; prefix is "" at the top and
\* "<field_name>." inside an object; ids are the results of the uuid4() calls
\* and k is the number of calls made so far
RECURSIVE ConvertFields(_, _, _, _)
ConvertField(f, name, ids, k) ==
  IF f.has_enum THEN ConvertEnumField(f, name, ids[k + 1])
  ELSE IF f.type = "string" THEN ConvertStringField(f, name, ids[k + 1])
  ELSE IF f.type \in {"number", "integer"} THEN ConvertNumberField(f, name, ids[k + 1])
  ELSE IF f.type = "boolean" THEN ConvertBooleanField(f, name, ids[k + 1])
  ELSE IF f.type = "array" THEN ConvertArrayField(f, name, ids[k + 1])
  ELSE IF f.type = "object"
  THEN <<Block("section", "", "*" \o Title(f, name) \o "*", NoElement)>>
       \o ConvertFields(f.props, name \o ".", ids, k)
  ELSE ConvertStringField(f, name, ids[k + 1])
ConvertFields(fields, prefix, ids, k) ==
  IF fields = <<>> THEN <<>>
  ELSE ConvertField(Head(fields), prefix \o Head(fields).name, ids, k)
       \o ConvertFields(Tail(fields), prefix, ids, k + UuidCalls(<<Head(fields)>>))

\* (variant: the task id is left out of the value)
ButtonValueBare(task_id) == Dumps(<<[key |-> "action", value |-> PyStr("submit_form")]>>)

\* _create_submit_button: json.dumps(value)
ButtonValue(task_id) ==
  Dumps(<<[key |-> "action", value |-> PyStr("submit_form")]>>
        \o IF task_id.kind = "str" /\ task_id.s # ""
           THEN <<[key |-> "task_id", value |-> task_id]>>
           ELSE <<>>)

\* _create_submit_button: an actions block whose elements are one button; the
\* text of the block is the text of the button
CreateSubmitButton(task_id, id) ==
  Block("actions", "submit_" \o id, "Submit",
        [Element("button", "submit_form") EXCEPT !.value = ButtonValue(task_id)])

\* convert(user_form, task_id)
Convert(form, task_id, ids) ==
  (IF form.title.kind # "none"
   THEN <<Block("header", "", form.title.s, NoElement)>> ELSE <<>>)
  \o (IF form.description.kind # "none"
      THEN <<Block("section", "", form.description.s, NoElement)>> ELSE <<>>)
  \o (IF form.title.kind # "none" \/ form.description.kind # "none"
      THEN <<Block("divider", "", "", NoElement)>> ELSE <<>>)
  \o ConvertFields(form.fields, "", ids, 0)
  \o <<Block("divider", "", "", NoElement),
       CreateSubmitButton(task_id, ids[UuidCalls(form.fields) + 1])>>

\* ------------------------------------------ SlackBase.handle_form_submission
\* What Slack reports in state.values for an input element: one key beside the
\* type, "value" (a str, or null for an empty input), "selected_option" (an
\* option, or null when nothing is chosen) or "selected_options" (a list).
\* An option is written as its "value".
ActionValue(key, value) == [key |-> key, value |-> value]

\* the entry of state.values for an input block the user left untouched (it
\* reports what the block started with, null or [] where that is nothing) or
\* filled in
Filled(block, how) ==
  LET e == block.element
      shown == e.type \in {"plain_text_input", "number_input"}
      one == e.type \in {"static_select", "radio_buttons"}
      chosen == IF how = "untouched" THEN e.initial_options ELSE e.options
  IN [block_id |-> block.block_id,
      action_id |-> e.action_id,
      action_value |->
        IF shown
        THEN ActionValue("value",
               IF how = "untouched" THEN e.initial_value
               ELSE IF e.type = "number_input" THEN PyStr("42")
               ELSE PyStr("say \"hi\""))
        ELSE IF one
        THEN ActionValue("selected_option",
               IF how = "untouched"
               THEN (IF e.initial_option = <<>> THEN PyNone
                     ELSE PyStr(e.initial_option[1].value))
               ELSE IF e.options = <<>> THEN PyNone
               ELSE PyStr(e.options[1].value))
        ELSE ActionValue("selected_options",
               PyList([i \in 1..Len(chosen) |-> PyStr(chosen[i].value)]))]

\* state.values for the input blocks of a message, in the order of the blocks
RECURSIVE StateValues(_, _)
StateValues(bs, how) ==
  IF bs = <<>> THEN <<>>
  ELSE (IF Head(bs).type = "input" THEN <<Filled(Head(bs), how)>> ELSE <<>>)
       \o StateValues(Tail(bs), how)

\* the input of another block of the message, which is not a field of the form
ForeignInput ==
  [block_id |-> "feedback", action_id |-> "feedback_text_reason",
   action_value |-> ActionValue("value", PyStr("n/a"))]

\* the value of the first button of the actions block
SubmitValue(bs) ==
  LET ks == {i \in 1..Len(bs) : bs[i].type = "actions"}
  IN bs[CHOOSE i \in ks : \A j \in ks : i <= j].element.value

\* button values that convert does not produce
RawValues ==
  {"not json", "", "{}", "{\"task_id\": \"\"}", "{\"task_id\": null}",
   "{\"task_id\": \"t-1\"}", "5"}

\* the rest of the payload: the channel, the user, the message
Envelopes ==
  {[channel |-> "C12345678", channel_type |-> PyNone, type |-> PyStr("channel"),
    user |-> "U12345678", ts |-> "1234567890.123456",
    thread_ts |-> PyStr("1234567890.123456")],
   [channel |-> "D0000001", channel_type |-> PyStr("im"), type |-> PyNone,
    user |-> "U12345678", ts |-> "1234567899.000100", thread_ts |-> PyNone]}

\* dict[key] = value on a dict given as the sequence of its items
DictSet(pairs, key, value) ==
  IF \E i \in 1..Len(pairs) : pairs[i].key = key
  THEN [i \in 1..Len(pairs) |->
          IF pairs[i].key = key THEN [key |-> key, value |-> value] ELSE pairs[i]]
  ELSE Append(pairs, [key |-> key, value |-> value])

HasPrefix(s, p) == Len(s) >= Len(p) /\ SubSeq(s, 1, Len(p)) = p

\* action_value["selected_option"]["value"] raises TypeError on null
ExtractRaises(entry) ==
  /\ HasPrefix(entry.action_id, "action_")
  /\ entry.action_value.key = "selected_option"
  /\ entry.action_value.value.kind = "none"

\* action_id[len("action_"):]
FieldName(action_id) == SubSeq(action_id, Len("action_") + 1, Len(action_id))

\* handle_form_submission: the loops that fill form_data; ok is FALSE where
\* they raise
RECURSIVE ExtractFormData(_, _)
ExtractFormData(values, form_data) ==
  IF values = <<>> THEN [ok |-> TRUE, form_data |-> form_data]
  ELSE LET entry == Head(values)
       IN IF ~HasPrefix(entry.action_id, "action_")
          THEN ExtractFormData(Tail(values), form_data)
          ELSE IF ExtractRaises(entry)
          THEN [ok |-> FALSE, form_data |-> form_data]
          ELSE IF entry.action_value.key \in {"value", "selected_option", "selected_options"}
          THEN ExtractFormData(Tail(values),
                 DictSet(form_data, FieldName(entry.action_id), entry.action_value.value))
          ELSE ExtractFormData(Tail(values), form_data)

\* body.get("channel_type") or body["channel"].get("type", "unknown")
ChannelType(body) ==
  IF body.channel_type.kind = "str" /\ body.channel_type.s # "" THEN body.channel_type.s
  ELSE IF body.type.kind = "str" THEN body.type.s
  ELSE "unknown"

\* the payload Slack sends for the message of the form
Body(value, values, envelope) ==
  [value |-> value, values |-> values] @@ envelope

\* handle_form_submission up to the call of users_info in get_user_email
HandleFormSubmission ==
  /\ submission.pc = "start"
  /\ LET body == submission.body
         acked == [submission EXCEPT !.calls = <<[call |-> "ack"]>>]
         value_object == Loads(body.value)
         task_id == DictGet(value_object, "task_id")
         got == ExtractFormData(body.values, <<>>)
     IN submission' =
          IF ~value_object.ok THEN [acked EXCEPT !.pc = "done"]
          ELSE IF value_object.kind # "object" THEN [acked EXCEPT !.pc = "failed"]
          ELSE IF ~Truthy(task_id) THEN [acked EXCEPT !.pc = "done"]
          ELSE IF ~got.ok THEN [acked EXCEPT !.pc = "failed", !.task_id = task_id.s]
          ELSE [acked EXCEPT !.pc = "users_info",
                             !.task_id = task_id.s,
                             !.form_data = got.form_data,
                             !.calls = Append(@, [call |-> "users_info", user |-> body.user])]
  /\ UNCHANGED <<request, blocks, registry, feedback, discordVars>>

\* the event handed to SlackInput.handle_event
FormEvent(body, task_id, form_data, user_email) ==
  [type |-> "form_submission", user |-> body.user, channel |-> body.channel,
   ts |-> body.ts, thread_ts |-> body.thread_ts, text |-> Dumps(form_data),
   event_type |-> "post_user_form", form_data |-> form_data, task_id |-> task_id,
   channel_type |-> ChannelType(body), user_email |-> user_email]

\* (variant: the result of get_component is not tested)
UsersInfoReturnsUntested(email) ==
  /\ submission.pc = "users_info"
  /\ LET user_email == IF email.kind = "str" THEN email.s ELSE submission.body.user
     IN submission' =
          [submission EXCEPT
             !.pc = "handle_event",
             !.user_email = user_email,
             !.calls = Append(@, [call |-> "handle_event",
                                  event |-> FormEvent(submission.body, submission.task_id,
                                                      submission.form_data, user_email)])]
  /\ UNCHANGED <<request, blocks, registry, feedback, discordVars>>

\* users_info returns the profile, with or without an email, or raises (the
\* exception is caught in get_user_email); then get_component and, with a
\* SlackInput registered, the call of its handle_event
UsersInfoReturns(email) ==
  /\ submission.pc = "users_info"
  /\ LET user_email == IF email.kind = "str" THEN email.s ELSE submission.body.user
     IN submission' =
          IF ~registry THEN [submission EXCEPT !.pc = "done", !.user_email = user_email]
          ELSE [submission EXCEPT
                  !.pc = "handle_event",
                  !.user_email = user_email,
                  !.calls = Append(@, [call |-> "handle_event",
                                       event |-> FormEvent(submission.body, submission.task_id,
                                                           submission.form_data, user_email)])]
  /\ UNCHANGED <<request, blocks, registry, feedback, discordVars>>

\* SlackInput.handle_event returns; chat_postMessage is called
HandleEventReturns ==
  /\ submission.pc = "handle_event"
  /\ submission' =
       [submission EXCEPT
          !.pc = "post",
          !.calls = Append(@, [call |-> "chat_postMessage",
                               channel |-> submission.body.channel,
                               thread_ts |-> submission.body.thread_ts,
                               text |-> "Form submitted successfully!"])]
  /\ UNCHANGED <<request, blocks, registry, feedback, discordVars>>

\* chat_postMessage returns or raises SlackApiError
ChatPostMessageReturns(ok) ==
  /\ submission.pc = "post"
  /\ submission' = [submission EXCEPT !.pc = IF ok THEN "done" ELSE "failed"]
  /\ UNCHANGED <<request, blocks, registry, feedback, discordVars>>

\* ------------------------------------------------- the forms followed here
Form(title, description, fields) ==
  [title |-> title, description |-> description, fields |-> fields]

\* the form of test_convert_with_task_id
TestForm ==
  Form(PyStr("Test Form"), PyNone,
       <<[Field("name", "string") EXCEPT !.title = PyStr("Name"),
                                         !.value = PyStr("Test Name")]>>)

\* string fields around the length at which the input becomes multiline, and
\* values that are not strings
TextForm ==
  Form(PyNone, PyStr("Tell us more"),
       <<[Field("summary", "string") EXCEPT !.value = PyStr(Repeat("a", LONG_TEXT_LEN))],
         [Field("details", "string") EXCEPT !.value = PyStr(Repeat("a", LONG_TEXT_LEN + 1)),
                                            !.required = TRUE],
         [Field("notes", "string") EXCEPT !.widget = "textarea",
                                          !.placeholder = PyStr("Anything else")],
         [Field("count", "string") EXCEPT !.value = PyInt(12)],
         [Field("nick", "string") EXCEPT !.value = PyStr("")],
         [Field("when", "date") EXCEPT !.value = PyStr("")]>>)

\* fields with a choice, a number and a nested object
ChoiceForm ==
  Form(PyStr("Registration"), PyStr("Pick one"),
       <<[Field("colour", "string") EXCEPT !.has_enum = TRUE,
                                           !.enum = <<PyStr("red"), PyStr("green")>>],
         [Field("size", "integer") EXCEPT !.has_enum = TRUE,
                                          !.enum = <<PyInt(1), PyInt(2)>>,
                                          !.has_enum_names = TRUE,
                                          !.enum_names = <<PyStr("S"), PyStr("M")>>,
                                          !.widget = "radio",
                                          !.value = PyInt(2)],
         [Field("interests", "array") EXCEPT !.items_has_enum = TRUE,
                                             !.items_enum = <<PyStr("reading"), PyStr("coding")>>,
                                             !.value = PyList(<<PyStr("coding")>>)],
         [Field("age", "integer") EXCEPT !.minimum = PyInt(0), !.value = PyInt(30)]>>)

NestedForm ==
  Form(PyNone, PyNone,
       <<[Field("agree", "boolean") EXCEPT !.value = PyBool(TRUE)],
         [Field("tags", "array") EXCEPT !.value = PyList(<<PyStr("a"), PyInt(2)>>)],
         [Field("address", "object") EXCEPT
            !.props = <<[Field("street", "string") EXCEPT !.value = PyStr("1 Main St")]>>]>>)

Forms == {TestForm, TextForm, ChoiceForm, NestedForm}

\* task ids: none given, empty, the one of the tests, and ones json.dumps
\* has to escape
FormTaskIds ==
  {PyNone, PyStr(""), PyStr("test_task_id"), PyStr("a\"b"), PyStr("c:\\d")}

\* str(uuid.uuid4())[:8]
Suffixes == {"12345678", "9f8e7d6c"}

\* the state before a form is asked for: the form and the task id of the
\* request, SlackInput constructed (and so registered) or not
InitForm ==
  /\ feedback_endpoint = FALSE
  /\ input_queue = <<>>
  /\ produced = 0
  /\ ready = <<>>
  /\ tasks = <<>>
  /\ states = <<>>
  /\ state_by_uuid = [u \in Uuids |-> 0]
  /\ messages = <<>>
  /\ clock = StartTime
  /\ interactions = <<>>
  /\ request \in [form : Forms, task_id : FormTaskIds]
  /\ blocks = <<>>
  /\ registry \in BOOLEAN
  /\ submission = [pc |-> "idle"]
  /\ feedback = [pc |-> "idle"]
  /\ invocation = [pc |-> "idle"]
  /\ inbound = [pc |-> "idle"]

\* RJSFToSlackBlocksConverter.convert(user_form, task_id); the blocks are posted
ConvertForm(ids) ==
  /\ blocks = <<>>
  /\ blocks' = Convert(request.form, request.task_id, ids)
  /\ UNCHANGED <<request, registry, submission, feedback, discordVars>>

\* the payloads a press of the button can bring: the inputs all untouched or
\* all filled in, with or without an input of another block; the value of the
\* button, or another value for a button with the same action id
Bodies ==
  {Body(value, values, envelope) :
     value \in {SubmitValue(blocks)} \cup RawValues,
     values \in {StateValues(blocks, "untouched"),
                 StateValues(blocks, "filled"),
                 <<ForeignInput>> \o StateValues(blocks, "filled")},
     envelope \in Envelopes}

\* a form was posted and its button is pressed: Bolt calls
\* handle_form_submission(ack, body)
SubmitForm ==
  /\ submission.pc = "idle"
  /\ blocks # <<>>
  /\ \E body \in Bodies :
       submission' = [pc |-> "start", body |-> body, calls |-> <<>>, task_id |-> "",
                      form_data |-> <<>>, user_email |-> ""]
  /\ UNCHANGED <<request, blocks, registry, feedback, discordVars>>

\* users.info: a profile with an email or without one; without one and when
\* the call raises get_user_email gives the user id
Emails == {PyStr("test@example.com"), PyNone}

NextForm ==
  \/ \E ids \in [1..(UuidCalls(request.form.fields) + 1) -> Suffixes] : ConvertForm(ids)
  \/ SubmitForm
  \/ HandleFormSubmission
  \/ \E email \in Emails : UsersInfoReturns(email)
  \/ HandleEventReturns
  \/ \E ok \in BOOLEAN : ChatPostMessageReturns(ok)

SpecForm == InitForm /\ [][NextForm]_vars

\* ============================================================ properties
\* vocabulary of the properties
TaskSet == 1..Len(tasks)
Uuid(t) == tasks[t].chunk.uuid
Text(t) == ConcatText(Messages(tasks[t].chunk.text))
\* the task has run __send_message up to its first suspension or return
Entered(t) == tasks[t].pc \notin {"ready", "acquire", "woken"}
Finished(t) == tasks[t].pc \in {"done", "failed"}
\* the task made a send or edit call
Rendered(t) == tasks[t].call # "none"
Terminal(t) == tasks[t].chunk.last_chunk \/ tasks[t].chunk.response_complete
\* the task's channel.send returned a message
SentOk(t) == tasks[t].call = "send" /\ tasks[t].handle # 0
Sends(u) == {t \in TaskSet : Uuid(t) = u /\ tasks[t].call = "send"}
Renders(u) == {t \in TaskSet : Uuid(t) = u /\ Rendered(t)}

\* ---- C1
\* C1 as stated: for every response id at most one channel.send call is made.
C1_AtMostOneSendCall ==
  \A u \in Uuids : Cardinality(Sends(u)) <= 1

C1_OneMessage ==
  /\ \A u \in Uuids : Cardinality({t \in Sends(u) : SentOk(t)}) <= 1
  /\ \A u \in Uuids : Cardinality({h \in 1..Len(messages) : messages[h].uuid = u}) <= 1
  /\ \A t \in TaskSet : tasks[t].call = "send" /\ tasks[t].pc = "send" =>
        \A a \in Sends(Uuid(t)) \ {t} : Finished(a) /\ ~SentOk(a)
  /\ \A t \in TaskSet : tasks[t].call = "edit" =>
        /\ tasks[t].handle # 0
        /\ tasks[t].handle = states[tasks[t].state].active

C1_HandleKept ==
  \A s \in 1..Len(states) :
     states[s].active # 0 => states'[s].active = states[s].active

\* C1 (amended): for every response id at most one channel.send call returns a
\* message (a send is made again only after every earlier send for the id has
\* raised); once the active handle is set, every later render for the id is an
\* edit of that handle, and the handle is never replaced.
C1_AtMostOneMessage == [](C1_OneMessage) /\ [][C1_HandleKept]_vars

\* an edit of the message an earlier chunk of the response sent has completed
C1_Witness ==
  \E a, b \in TaskSet :
     /\ a < b /\ Uuid(a) = Uuid(b)
     /\ SentOk(a) /\ tasks[b].call = "edit" /\ tasks[b].pc = "done"
     /\ tasks[b].handle = tasks[a].handle

\* ---- C2
\* C2: when chunk A of an id was processed before chunk B of the same id, B's
\* text is not longer than A's and B is not the last chunk, B is not rendered.
C2_MonotonicSuppression ==
  \A a, b \in TaskSet :
     ( /\ a < b /\ Uuid(a) = Uuid(b)
       /\ Entered(a) /\ Entered(b)
       /\ Len(Text(b)) <= Len(Text(a))
       /\ ~tasks[b].chunk.last_chunk )
     => ~Rendered(b)

\* ---- C3
\* C3: a chunk with last_chunk or response_complete on a postable channel is
\* rendered (send or edit) however recent the previous render of its id is,
\* provided its text is longer than the stored text or it is the last chunk.
C3_ForcedFlush ==
  \A t \in TaskSet :
     ( /\ Entered(t)
       /\ Terminal(t)
       /\ Postable(tasks[t].chunk.channel)
       /\ \/ Len(Text(t)) > Len(states[tasks[t].state].text)
          \/ tasks[t].chunk.last_chunk )
     => Rendered(t)

\* a terminal chunk was rendered within the throttle interval of the render
\* before it
C3_Witness ==
  \E a, b \in TaskSet :
     /\ a < b /\ Uuid(a) = Uuid(b)
     /\ Rendered(a) /\ Terminal(b) /\ Rendered(b)
     /\ tasks[b].now - tasks[a].now <= THROTTLE_INTERVAL
\* ---- C4
\* C4 as stated: of two non-terminal chunks of an id processed closer together
\* than the throttle interval exactly one is rendered, and it is the later one.
C4_LaterOneRenders ==
  \A a, b \in TaskSet :
     ( /\ a < b /\ Uuid(a) = Uuid(b)
       /\ ~Terminal(a) /\ ~Terminal(b)
       /\ Finished(a) /\ Finished(b)
       /\ tasks[b].now - tasks[a].now < THROTTLE_INTERVAL )
     => (~Rendered(a) /\ Rendered(b))

\* C4 (amended): of two non-terminal chunks of an id processed closer together
\* than the throttle interval at most one is rendered; when the earlier one is
\* rendered the later one is discarded, not deferred.
C4_AtMostOneRenders ==
  \A a, b \in TaskSet :
     ( /\ a < b /\ Uuid(a) = Uuid(b)
       /\ ~Terminal(a) /\ ~Terminal(b)
       /\ Entered(a) /\ Entered(b)
       /\ tasks[b].now - tasks[a].now < THROTTLE_INTERVAL )
     => ~(Rendered(a) /\ Rendered(b))

\* the earlier chunk was rendered and the later one, with longer text, was
\* dropped by the throttle and its task has ended
C4_Witness ==
  \E a, b \in TaskSet :
     /\ a < b /\ Uuid(a) = Uuid(b)
     /\ ~Terminal(a) /\ ~Terminal(b)
     /\ Finished(a) /\ Finished(b)
     /\ tasks[b].now - tasks[a].now < THROTTLE_INTERVAL
     /\ Rendered(a) /\ ~Rendered(b) /\ Len(Text(b)) > 0

\* ---- C5
EnteredOf(u) == {t \in TaskSet : Uuid(t) = u /\ Entered(t)}
\* time between the processing of the first and the last chunk of the id
Duration(u) ==
  LET ts == {tasks[t].now : t \in EnteredOf(u)}
  IN IF ts = {} THEN 0
     ELSE (CHOOSE x \in ts : \A y \in ts : y <= x) - (CHOOSE x \in ts : \A y \in ts : x <= y)
CeilDiv(a, b) == (a + b - 1) \div b
RenderBound(u) == CeilDiv(Duration(u), THROTTLE_INTERVAL) + 1

\* C5 as stated: the renders (sends plus edits) of an id number at most
\* ceil(stream_duration / throttle_interval) + 1.
C5_AllRendersBounded ==
  \A u \in Uuids : Cardinality(Renders(u)) <= RenderBound(u)

\* C5 (amended): the renders of the non-terminal chunks of an id number at most
\* ceil(stream_duration / throttle_interval) + 1, the duration taken between the
\* processing of its first and of its last chunk; every chunk with last_chunk
\* or response_complete adds a render of its own.
C5_StreamedRendersBounded ==
  \A u \in Uuids :
     Cardinality({t \in Renders(u) : ~Terminal(t)}) <= RenderBound(u)

\* an id has two renders of non-terminal chunks and a chunk the throttle dropped
C5_Witness ==
  \E u \in Uuids :
     /\ Cardinality({t \in Renders(u) : ~Terminal(t)}) = 2
     /\ \E t \in EnteredOf(u) : ~Rendered(t) /\ Len(Text(t)) > 0

\* ---- C6
ViewRenders(u) == {t \in Renders(u) : tasks[t].view}

Held(u) ==
  IF state_by_uuid[u] = 0 THEN <<"", 0, 0>>
  ELSE <<states[state_by_uuid[u]].text, states[state_by_uuid[u]].last_edit,
         states[state_by_uuid[u]].active>>

C7_OwnStateOnly ==
  \A t \in TaskSet :
     tasks'[t].pc # tasks[t].pc =>
        \A u \in Uuids \ {Uuid(t)} : Held(u)' = Held(u)

C7_OwnTextOnly ==
  /\ \A t \in TaskSet : tasks[t].state # 0 => states[tasks[t].state].uuid = Uuid(t)
  /\ \A t \in TaskSet : tasks[t].call = "edit" => messages[tasks[t].handle].uuid = Uuid(t)
  /\ \A h \in 1..Len(messages) :
        \E t \in TaskSet :
           /\ Uuid(t) = messages[h].uuid
           /\ Rendered(t)
           /\ messages[h].content = Full(Text(t))

\* C7: a step of a task of one id leaves the accumulated text, last-edit time
\* and active handle of every other id unchanged, and the text of an id's
\* message is always that of one of the id's own chunks.
C7_Isolation == [](C7_OwnTextOnly) /\ [][C7_OwnStateOnly]_vars

\* two ids each have a message, and the two texts differ
C7_Witness ==
  \E g, h \in 1..Len(messages) :
     /\ messages[g].uuid # messages[h].uuid
     /\ messages[g].content # messages[h].content
     /\ \E t \in TaskSet : tasks[t].call = "edit" /\ tasks[t].pc = "done"

\* ---- C8
\* the task is inside __send_message, suspended in or resuming from a platform call
Inside(t) ==
  tasks[t].pc \in {"send", "send_ret", "edit", "edit_ret", "add_files", "add_ret"}

\* C8: no two tasks are inside __send_message for one id at a time, and a task
\* inside it, across the suspension in send, edit and add_files, holds the lock
\* of its id's State.
C8_MutualExclusion ==
  /\ \A a, b \in TaskSet :
        Uuid(a) = Uuid(b) /\ Inside(a) /\ Inside(b) => a = b
  /\ \A t \in TaskSet :
        Inside(t) =>
           /\ tasks[t].state = state_by_uuid[Uuid(t)]
           /\ states[tasks[t].state].locked

\* a task is suspended in add_files while another task of the id waits for the lock
C8_Witness ==
  \E a, b \in TaskSet :
     /\ Uuid(a) = Uuid(b)
     /\ tasks[a].pc = "add_files"
     /\ tasks[b].pc = "acquire"

\* ---- C9
\* C9: chunks of one id enter the locked section of send_message in the order
\* in which they were put on the queue.
C9_PerResponseFifo ==
  /\ \A a, b \in TaskSet :
        ( /\ Uuid(a) = Uuid(b)
          /\ tasks[a].chunk.seq < tasks[b].chunk.seq
          /\ Entered(b) )
        => Entered(a)
  /\ \A i \in 1..Len(input_queue) : \A b \in TaskSet :
        input_queue[i].uuid = Uuid(b) => tasks[b].chunk.seq < input_queue[i].seq

\* three chunks of one id have entered in turn, the last at a later time than the first
C9_Witness ==
  \E a, b, c \in TaskSet :
     /\ a < b /\ b < c
     /\ Uuid(a) = Uuid(b) /\ Uuid(b) = Uuid(c)
     /\ Finished(a) /\ Finished(b) /\ Entered(c)
     /\ tasks[a].now < tasks[c].now

\* ---- C10
\* C10: one State record at most is ever constructed for an id, and every task
\* of the id uses the record the map holds.
C10_OneStatePerId ==
  /\ \A r, s \in 1..Len(states) : states[r].uuid = states[s].uuid => r = s
  /\ \A t \in TaskSet :
        tasks[t].state # 0 =>
           /\ tasks[t].state = state_by_uuid[Uuid(t)]
           /\ states[tasks[t].state].uuid = Uuid(t)

\* three tasks of one id have started while the first is still inside, and
\* the id has one State
C10_Witness ==
  \E a, b, c \in TaskSet :
     /\ a < b /\ b < c
     /\ Uuid(a) = Uuid(b) /\ Uuid(b) = Uuid(c)
     /\ Inside(a) /\ tasks[b].pc = "acquire" /\ tasks[c].pc = "acquire"
     /\ Cardinality({s \in 1..Len(states) : states[s].uuid = Uuid(a)}) = 1

\* ---- C11
TasksOf(u) == {t \in TaskSet : Uuid(t) = u}
LastOf(u) == CHOOSE t \in TasksOf(u) : \A a \in TasksOf(u) : a <= t
MessagesOf(u) == {h \in 1..Len(messages) : messages[h].uuid = u}

\* all chunks of the id put so far have been processed: they are non-terminal
\* chunks of growing text followed by one chunk with last_chunk, all processed
\* within one throttle interval, and no call failed
StreamedWithinInterval(u) ==
  /\ TasksOf(u) # {}
  /\ \A i \in 1..Len(input_queue) : input_queue[i].uuid # u
  /\ \A t \in TasksOf(u) : tasks[t].pc = "done"
  /\ \A t \in TasksOf(u) : ~tasks[t].chunk.response_complete
  /\ \A t \in TasksOf(u) : tasks[t].chunk.last_chunk <=> t = LastOf(u)
  /\ \A a, b \in TasksOf(u) : a < b => Len(Text(a)) < Len(Text(b))
  /\ \A a, b \in TasksOf(u) : tasks[b].now - tasks[a].now <= THROTTLE_INTERVAL

FirstOfId(t) == \A a \in TaskSet : Uuid(a) = Uuid(t) => t <= a

\* C12 as stated: an empty chunk of an id with no State is rendered with the
\* placeholder as its body, and no send or edit has an empty body.
C12_EmptyFirstRendered ==
  /\ \A t \in TaskSet :
        FirstOfId(t) /\ Text(t) = "" /\ Entered(t) =>
           Rendered(t) /\ tasks[t].body = PLACEHOLDER
  /\ \A t \in TaskSet : Rendered(t) => tasks[t].body # ""

\* C12 (amended): an empty chunk of an id with no State is sent with the
\* placeholder as its body when it is the last chunk and is discarded with no
\* platform call when it is not; no send or edit has an empty body, and no
\* message has empty content.
C12_EmptyFirstPlaceholder ==
  /\ \A t \in TaskSet :
        FirstOfId(t) /\ Text(t) = "" /\ Entered(t) =>
           IF tasks[t].chunk.last_chunk
           THEN tasks[t].call = "send" /\ tasks[t].body = PLACEHOLDER
           ELSE ~Rendered(t) /\ tasks[t].pc = "done"
  /\ \A t \in TaskSet : Rendered(t) => Len(tasks[t].body) > 0
  /\ \A h \in 1..Len(messages) : Len(messages[h].content) > 0

\* an empty last chunk opened its response: the message shows the placeholder
C12_Witness ==
  \E t \in TaskSet :
     /\ FirstOfId(t) /\ Text(t) = "" /\ tasks[t].chunk.last_chunk
     /\ tasks[t].pc = "done" /\ SentOk(t)
     /\ messages[tasks[t].handle].content = PLACEHOLDER

\* ---- C13
\* C13: the body of every send and edit is the chunk's concatenated text when
\* that text has between 1 and 2000 characters, its first 2000 characters when
\* it has more, and the placeholder when it is empty; so every body has between
\* 1 and 2000 characters.
C13_BodyTruncated ==
  \A t \in TaskSet :
     Rendered(t) =>
        /\ Text(t) = "" => tasks[t].body = PLACEHOLDER
        /\ Text(t) # "" /\ Len(Text(t)) <= MAX_BODY_LEN => tasks[t].body = Text(t)
        /\ Len(Text(t)) > MAX_BODY_LEN =>
              /\ Len(tasks[t].body) = MAX_BODY_LEN
              /\ tasks[t].body \o SubSeq(Text(t), MAX_BODY_LEN + 1, Len(Text(t))) = Text(t)
        /\ Len(tasks[t].body) >= 1
        /\ Len(tasks[t].body) <= MAX_BODY_LEN

\* a text of 2001 characters was sent and the message shows its first 2000; a
\* later chunk of the response edited a text of 2000 characters in whole
C13_Witness ==
  \E a, b \in TaskSet :
     /\ Len(Text(a)) = MAX_BODY_LEN + 1
     /\ SentOk(a)
     /\ tasks[a].body = Repeat("x", MAX_BODY_LEN - 1) \o "y"
     /\ tasks[b].call = "edit" /\ tasks[b].pc = "done"
     /\ Len(Text(b)) = MAX_BODY_LEN
     /\ messages[tasks[b].handle].content = Text(b)

\* ---- C14
IxSet == 1..Len(interactions)
\* the interaction is a click on a feedback button of a message
FeedbackClick(i) ==
  /\ Routed(interactions[i].event)
  /\ interactions[i].event.message # 0
  /\ interactions[i].event.custom_id \in FeedbackButtons
Callbacks == {"thumbs_up_callback", "thumbs_down_callback"}
CalledBack(i) == {k \in 1..Len(interactions[i].calls) : interactions[i].calls[k] \in Callbacks}

C14_EditBeforeHandler ==
  \A i \in IxSet :
     FeedbackClick(i) =>
        /\ \A k \in CalledBack(i) :
              /\ k = 2
              /\ interactions[i].calls[1] = "message.edit"
              /\ interactions[i].event.custom_id = "thumbs_up" =>
                    interactions[i].calls[k] = "thumbs_up_callback"
              /\ interactions[i].event.custom_id = "thumbs_down" =>
                    interactions[i].calls[k] = "thumbs_down_callback"
        /\ interactions[i].pc \in {"respond", "respond_ret", "done"} =>
              CalledBack(i) = {2}

C14_EditClears ==
  \A i \in IxSet :
     ( /\ interactions[i].pc = "edit"
       /\ interactions'[i].pc = "edit_ret" /\ interactions'[i].ok
       /\ interactions[i].event.message > 0 )
     => ~messages'[interactions[i].event.message].view

\* C14: for a click on a feedback button of a message, the router's first call
\* is the edit of the message with no view, whose completion leaves the message
\* without controls; the handler is called only after that edit has returned,
\* once, and it is thumbs_up_callback for thumbs_up and thumbs_down_callback
\* for thumbs_down.
C14_ClearThenDispatch == [](C14_EditBeforeHandler) /\ [][C14_EditClears]_vars

\* a thumbs-down click on the sender's message was handled: the message has no
\* controls and the task called the edit and then thumbs_down_callback
C14_Witness ==
  \E i \in IxSet :
     /\ FeedbackClick(i)
     /\ interactions[i].event.message > 0
     /\ interactions[i].pc = "done"
     /\ interactions[i].calls = <<"message.edit", "thumbs_down_callback">>
     /\ ~messages[interactions[i].event.message].view

\* ---- C15
\* the step in which the exception leaves the task of a chunk
C15_FailureIsLocal ==
  \A t \in TaskSet :
     tasks[t].pc # "failed" /\ tasks'[t].pc = "failed" =>
        LET s == tasks'[t].state
            \* the tasks waiting for the lock of the response, t itself apart
            w == IF s \in 1..Len(states)
                 THEN SelectSeq(states[s].waiters, LAMBDA x : x # t)
                 ELSE <<>>
        IN /\ \A a \in TaskSet \ {t} :
                 \/ tasks'[a] = tasks[a]
                 \/ /\ w # <<>> /\ a = Head(w)
                    /\ tasks'[a] = [tasks[a] EXCEPT !.pc = "woken"]
           /\ ~states'[s].locked
           /\ w # <<>> =>
                 /\ tasks'[Head(w)].pc = "woken"
                 /\ ready'[Len(ready')] = Head(w)
           /\ \A u \in Uuids \ {Uuid(t)} : Held(u)' = Held(u)
           /\ input_queue' = input_queue
           /\ messages' = messages

\* a lock is held only by a task that is inside __send_message; a free lock
\* with waiters has its first waiter woken; queued chunks can be dequeued
C15_NoLockLeftBehind ==
  /\ \A s \in 1..Len(states) :
        states[s].locked => \E t \in TaskSet : tasks[t].state = s /\ Inside(t)
  /\ \A s \in 1..Len(states) :
        ~states[s].locked /\ states[s].waiters # <<>> =>
           /\ tasks[Head(states[s].waiters)].pc = "woken"
           /\ \E k \in 1..Len(ready) : ready[k] = Head(states[s].waiters)
  /\ input_queue # <<>> => ENABLED DoMessages

\* C15: an exception in channel resolution, send, edit or file attach ends the
\* task of that chunk only; in the same step the lock of its response is
\* released and the first waiting task of the response is woken, no lock is
\* ever left held by a task that has ended, do_messages can always dequeue,
\* and the state and message of every other response stay as they were.
C15_LocalFailure == [](C15_NoLockLeftBehind) /\ [][C15_FailureIsLocal]_vars

\* a chunk of a response failed; a later chunk of the same response was rendered
\* after it and a chunk of another response was rendered as well
C15_Witness ==
  \E a, b, c \in TaskSet :
     /\ a < b /\ Uuid(a) = Uuid(b) /\ Uuid(c) # Uuid(a)
     /\ tasks[a].pc = "failed"
     /\ tasks[b].pc = "done" /\ Rendered(b) /\ tasks[b].handle # 0
     /\ tasks[c].pc = "done" /\ SentOk(c)

\* ---- C16
\* the chunks of the id put so far, queued or taken by a task
ChunksOf(u) ==
  {tasks[t].chunk : t \in TasksOf(u)}
  \cup {input_queue[i] : i \in {k \in 1..Len(input_queue) : input_queue[k].uuid = u}}
LastChunk(u) == CHOOSE c \in ChunksOf(u) : \A d \in ChunksOf(u) : d.seq <= c.seq
EndsTerminal(u) ==
  /\ ChunksOf(u) # {}
  /\ LastChunk(u).last_chunk \/ LastChunk(u).response_complete
Processed(u) ==
  /\ \A i \in 1..Len(input_queue) : input_queue[i].uuid # u
  /\ \A t \in TasksOf(u) : Finished(t)
\* the id has one message, which shows the text of its last chunk, with the
\* controls when that chunk completes the response and an endpoint is set
Flushed(u) ==
  /\ Cardinality(MessagesOf(u)) = 1
  /\ \A h \in MessagesOf(u) :
        /\ messages[h].content = Full(ConcatText(Messages(LastChunk(u).text)))
        /\ LastChunk(u).response_complete /\ feedback_endpoint => messages[h].view

\* C16: with every platform call succeeding, whenever the latest chunk put for
\* an id is terminal (last_chunk or response_complete), then, unless a further
\* chunk is put for the id, all its chunks are eventually processed and from
\* then on the id has exactly one message, whose content is the truncated text
\* of that terminal chunk, with the controls when the chunk has
\* response_complete and an endpoint is configured.
C16_FinalFlush ==
  \A u \in Uuids :
     EndsTerminal(u) ~> ((Processed(u) /\ Flushed(u)) \/ ~EndsTerminal(u))

\* three chunks of an id are processed, the middle one dropped by the throttle,
\* and the message shows the text of the last chunk
C16_Witness ==
  \E u \in Uuids :
     /\ EndsTerminal(u) /\ Processed(u) /\ Flushed(u)
     /\ Cardinality(TasksOf(u)) = 3
     /\ \E t \in TasksOf(u) : ~Rendered(t)
     /\ \E t \in TasksOf(u) : tasks[t].call = "edit" /\ t = LastOf(u)

\* ---------------------------------------------------------------- C17
\* the button value is valid JSON with a task_id in it
HasTaskId(value) ==
  LET v == Loads(value)
  IN v.ok /\ v.kind = "object" /\ Truthy(DictGet(v, "task_id"))

\* handle_form_submission has returned or raised
Returned == submission.pc \in {"done", "failed"}

CallsOf(name) == {i \in 1..Len(submission.calls) : submission.calls[i].call = name}

\* C17: once handle_form_submission is over for a submission whose button
\* value is valid JSON with a task_id, a SlackInput being registered, it has
\* acknowledged first, called handle_event exactly once with an event of type
\* form_submission carrying the user, the channel, the task_id and form_data,
\* and after that posted exactly one "Form submitted successfully!" message to
\* the channel and thread of the form.
C17_FormSubmitted ==
  (Returned /\ registry /\ HasTaskId(submission.body.value)) =>
    LET calls == submission.calls
        body == submission.body
    IN /\ calls # <<>>
       /\ calls[1].call = "ack"
       /\ CallsOf("ack") = {1}
       /\ Cardinality(CallsOf("handle_event")) = 1
       /\ Cardinality(CallsOf("chat_postMessage")) = 1
       /\ \A h \in CallsOf("handle_event"), m \in CallsOf("chat_postMessage") :
            /\ h < m
            /\ calls[h].event.type = "form_submission"
            /\ calls[h].event.user = body.user
            /\ calls[h].event.channel = body.channel
            /\ calls[h].event.task_id = DictGet(Loads(body.value), "task_id").s
            /\ calls[h].event.form_data = submission.form_data
            /\ calls[m].channel = body.channel
            /\ calls[m].thread_ts = body.thread_ts
            /\ calls[m].text = "Form submitted successfully!"

\* ---------------------------------------------------------------- C18
\* the entries of state.values whose action id is "action_<field>"
FieldEntries(values) ==
  SelectSeq(values, LAMBDA e : HasPrefix(e.action_id, "action_"))

\* the value of a field in form_data, as a set of 0 or 1 values
FormDataOf(form_data, field) ==
  {form_data[i].value : i \in {j \in 1..Len(form_data) : form_data[j].key = field}}

\* C18: once handle_form_submission is past the task_id of a submission,
\* form_data has, for every action id "action_<field>" of state.values, the
\* entry <field> with the "value" of the input, else the value of its
\* selected_option, else the values of its selected_options in order, and it
\* has no other entry.
C18_FormData ==
  (submission.pc \notin {"idle", "start"} /\ HasTaskId(submission.body.value)) =>
    LET entries == FieldEntries(submission.body.values)
        form_data == submission.form_data
    IN /\ \A i \in 1..Len(entries) :
            /\ entries[i].action_value.value.kind # "none"
                 \/ entries[i].action_value.key = "value"
            /\ FormDataOf(form_data, FieldName(entries[i].action_id))
                 = {entries[i].action_value.value}
       /\ \A j \in 1..Len(form_data) :
            \E i \in 1..Len(entries) : FieldName(entries[i].action_id) = form_data[j].key

\* ---------------------------------------------------------------- C19
\* C19: the value of the submit button that convert(form, task_id) makes is
\* JSON for an object whose task_id is the given one when that is a non-empty
\* string and which has no task_id when none is given, and
\* handle_form_submission, handed that value, reads the same task_id back.
C19_TaskIdRoundTrip ==
  /\ blocks # <<>> =>
       LET v == Loads(SubmitValue(blocks))
       IN /\ v.ok /\ v.kind = "object"
          /\ (request.task_id.kind = "str" /\ request.task_id.s # "") =>
               DictGet(v, "task_id") = [kind |-> "str", s |-> request.task_id.s]
          /\ request.task_id = PyNone =>
               \A i \in 1..Len(v.pairs) : v.pairs[i].key # "task_id"
  /\ ( /\ submission.pc \notin {"idle", "start"}
       /\ submission.body.value = SubmitValue(blocks)
       /\ request.task_id.kind = "str" /\ request.task_id.s # "" ) =>
       submission.task_id = request.task_id.s

C19_Witness ==
  /\ Returned
  /\ request.task_id = PyStr("a\"b")
  /\ submission.body.value = SubmitValue(blocks)
  /\ submission.task_id = "a\"b"

\* ---------------------------------------------------------------- C20
\* the fields of a form with the names convert gives them, those inside an
\* object included
RECURSIVE NamedFields(_, _)
NamedFields(fields, prefix) ==
  IF fields = <<>> THEN <<>>
  ELSE LET f == Head(fields)
       IN (IF ~f.has_enum /\ f.type = "object"
           THEN NamedFields(f.props, prefix \o f.name \o ".")
           ELSE <<[name |-> prefix \o f.name, f |-> f]>>)
          \o NamedFields(Tail(fields), prefix)

\* the fields of type string without an enum
StringFields(form) ==
  SelectSeq(NamedFields(form.fields, ""),
            LAMBDA x : ~x.f.has_enum /\ x.f.type = "string")

InputsFor(name) ==
  {i \in 1..Len(blocks) : blocks[i].type = "input"
                          /\ blocks[i].element.action_id = "action_" \o name}

\* C20: for every string field of the form the blocks have one input, a
\* plain_text_input, multiline exactly when the uiSchema widget is "textarea"
\* or the value is a string of more than 100 characters, with initial_value
\* str(value) when there is a value and no initial_value when there is none.
C20_StringInput ==
  blocks # <<>> =>
    LET fields == StringFields(request.form)
    IN \A k \in 1..Len(fields) :
         LET f == fields[k].f
         IN /\ Cardinality(InputsFor(fields[k].name)) = 1
            /\ \A i \in InputsFor(fields[k].name) :
                 LET e == blocks[i].element
                 IN /\ e.type = "plain_text_input"
                    /\ e.multiline =
                         PyBool(f.widget = "textarea"
                                \/ (f.value.kind = "str" /\ Len(f.value.s) > 100))
                    /\ e.initial_value =
                         IF f.value.kind = "none" THEN PyNone
                         ELSE IF f.value.kind = "str" THEN PyStr(f.value.s)
                         ELSE IF f.value.kind = "int" THEN PyStr(Decimal(f.value.n))
                         ELSE PyStr(PyToStr(f.value))

C20_Witness ==
  /\ blocks # <<>>
  /\ request.form = TextForm
  /\ \E i \in InputsFor("details") : blocks[i].element.multiline = PyBool(TRUE)
  /\ \E i \in InputsFor("summary") : blocks[i].element.multiline = PyBool(FALSE)
  /\ \E i \in InputsFor("count") : blocks[i].element.initial_value = PyStr("12")
  /\ \E i \in InputsFor("notes") : blocks[i].element.initial_value = PyNone
  /\ \E i \in InputsFor("nick") : blocks[i].element.initial_value = PyStr("")

\* ---------------------------------------------------------------- C21
\* C21: in the blocks of a form every field with an enum has one input, of
\* radio_buttons when its uiSchema widget is "radio" and a static_select
\* otherwise, whatever its type; without an enum a field of type number or
\* integer has a number_input and a field of type string or of an unknown type
\* a plain_text_input; and the last block is an actions block with the one
\* button "Submit".
C21_ElementChoice ==
  blocks # <<>> =>
    LET fields == NamedFields(request.form.fields, "")
        last == blocks[Len(blocks)]
    IN /\ \A k \in 1..Len(fields) :
            LET f == fields[k].f
                kinds == {blocks[i].element.type : i \in InputsFor(fields[k].name)}
            IN /\ Cardinality(InputsFor(fields[k].name)) = 1
               /\ f.has_enum /\ f.widget = "radio" => kinds = {"radio_buttons"}
               /\ f.has_enum /\ f.widget # "radio" => kinds = {"static_select"}
               /\ ~f.has_enum /\ f.type \in {"number", "integer"} => kinds = {"number_input"}
               /\ ~f.has_enum /\ f.type \notin {"number", "integer", "boolean", "array", "object"}
                    => kinds = {"plain_text_input"}
       /\ last.type = "actions"
       /\ last.element.type = "button"
       /\ last.text = "Submit"
       /\ last.element.action_id = "submit_form"
       /\ \A i \in 1..(Len(blocks) - 1) : blocks[i].type # "actions"

\* the blocks of a form with an enum shown as radio buttons, an enum of type
\* string shown as a select, and a number
C21_Witness ==
  /\ blocks # <<>>
  /\ request.form = ChoiceForm
  /\ \E i \in InputsFor("size") : blocks[i].element.type = "radio_buttons"
  /\ \E i \in InputsFor("colour") : blocks[i].element.type = "static_select"
  /\ \E i \in InputsFor("age") : blocks[i].element.type = "number_input"
  /\ blocks[Len(blocks)].type = "actions"

\* ---------------------------------------------------------------- C22
\* the accumulated text of a response as the dispatch algorithm keeps it: ""
\* at first, and after each chunk that passes the stale check the text of that
\* chunk; ts are the tasks of the response in the order in which they entered
RECURSIVE Accepted(_, _)
Accepted(ts, acc) ==
  IF ts = <<>> THEN acc
  ELSE LET t == Head(ts)
       IN Accepted(Tail(ts),
                   IF Len(Text(t)) <= Len(acc) /\ ~tasks[t].chunk.last_chunk
                   THEN acc ELSE Text(t))

\* the tasks of a response that have entered, oldest first (tasks of one
\* response enter in the order of their creation)
EnteredSeq(u) ==
  SelectSeq([t \in 1..Len(tasks) |-> t], LAMBDA t : Uuid(t) = u /\ Entered(t))

Accumulated(u) == Accepted(EnteredSeq(u), "")

\* C22: the text held in a response's State is the text of the last chunk of
\* the response that passed the stale check, whether that chunk was rendered
\* or skipped by the throttle.
C22_TextAccumulated ==
  \A u \in Uuids :
     state_by_uuid[u] # 0 => states[state_by_uuid[u]].text = Accumulated(u)

\* ---------------------------------------------------------------- C23
\* C23: when a chunk with neither last_chunk nor response_complete is rendered,
\* more than the throttle interval lies between it and every earlier render of
\* its response; such a chunk processed within the interval of an earlier
\* render makes no platform call.
C23_MinimumSpacing ==
  \A a, b \in TaskSet :
     ( /\ a < b /\ Uuid(a) = Uuid(b)
       /\ Rendered(a) /\ Entered(b) /\ ~Terminal(b) )
     => /\ Rendered(b) => tasks[b].now - tasks[a].now > THROTTLE_INTERVAL
        /\ tasks[b].now - tasks[a].now <= THROTTLE_INTERVAL =>
             tasks[b].call = "none" /\ tasks[b].pc = "done"

\* a chunk is rendered, the next one comes exactly one interval later and is
\* dropped, and the one after that, later still, is rendered
C23_Witness ==
  \E a, b, c \in TaskSet :
     /\ a < b /\ b < c
     /\ Uuid(a) = Uuid(b) /\ Uuid(b) = Uuid(c)
     /\ ~Terminal(b) /\ ~Terminal(c)
     /\ Rendered(a)
     /\ tasks[b].now - tasks[a].now = THROTTLE_INTERVAL
     /\ Finished(b) /\ ~Rendered(b) /\ Len(Text(b)) > 0
     /\ Rendered(c)

\* ---------------------------------------------------------------- C24
\* the task runs __send_message in this step
Enters(t) == ~Entered(t) /\ Entered(t)'

\* C24: a step in which a chunk without last_chunk, with text not longer than
\* the accumulated text of its response, is processed makes no platform call
\* and leaves the text, last-edit time and active handle of the response and
\* the platform's messages as they were.
C24_StaleStep ==
  \A t \in TaskSet :
     ( /\ Enters(t)
       /\ ~tasks[t].chunk.last_chunk
       /\ Len(Text(t)) <= Len(Accumulated(Uuid(t))) )
     => /\ tasks'[t].call = "none"
        /\ tasks'[t].pc = "done"
        /\ Held(Uuid(t))' = Held(Uuid(t))
        /\ messages' = messages

C24_StaleDiscarded == [][C24_StaleStep]_vars

\* ---------------------------------------------------------------- C25
\* the send or edit the task called has raised
RenderFailed(t) ==
  /\ tasks[t].pc = "failed"
  /\ \/ tasks[t].call = "send" /\ tasks[t].handle = 0
     \/ tasks[t].call = "edit" /\ ~tasks[t].ok /\ tasks[t].chunk.files = <<>>

\* C25: the last-edit time of a response is 0 or the time of a chunk of the
\* response whose send or edit was called and has not failed: chunks that are
\* discarded (stale, throttled, channel not postable) and chunks whose
\* platform call fails leave no trace in it.
C25_LastEditIsLastUpdate ==
  \A s \in 1..Len(states) :
     states[s].last_edit # 0 =>
        \E t \in TaskSet :
           /\ Uuid(t) = states[s].uuid
           /\ tasks[t].now = states[s].last_edit
           /\ Rendered(t) /\ ~RenderFailed(t)

\* ---------------------------------------------------------------- C26
\* b is the chunk of its response processed next after a
NextOf(a, b) ==
  /\ a < b /\ Uuid(a) = Uuid(b)
  /\ \A c \in TaskSet : Uuid(c) = Uuid(a) => c <= a \/ c >= b

\* C26: when the render of a chunk has failed, the next chunk of the response,
\* if its text is longer, calls send or edit again: send when the response has
\* no message yet, edit otherwise.
C26_ImplicitRetry ==
  \A a, b \in TaskSet :
     ( /\ NextOf(a, b)
       /\ RenderFailed(a)
       /\ Entered(b)
       /\ Postable(tasks[b].chunk.channel)
       /\ Len(Text(b)) > Len(Text(a)) )
     => /\ Rendered(b)
        /\ tasks[b].call = (IF \E c \in TaskSet : c < b /\ Uuid(c) = Uuid(b) /\ SentOk(c)
                            THEN "edit" ELSE "send")

\* ---------------------------------------------------------------- C27
\* the files of the task's chunk are on the message of its response
Attached(t) ==
  LET h == states[tasks[t].state].active
  IN /\ h # 0
     /\ \A i \in 1..Len(tasks[t].chunk.files) :
           \E j \in 1..Len(messages[h].files) :
              messages[h].files[j] = tasks[t].chunk.files[i]

\* C27: when the task of a chunk that carries files has returned and the
\* response has a message, the files are attached to that message, also when
\* the text of the chunk was not rendered because of the throttle or the stale
\* check.
C27_FilesAttached ==
  \A t \in TaskSet :
     ( /\ tasks[t].pc = "done"
       /\ tasks[t].chunk.files # <<>>
       /\ Postable(tasks[t].chunk.channel)
       /\ states[tasks[t].state].active # 0 )
     => Attached(t)

\* ---------------------------------------------------------------- C28
\* C28: every send and every edit carries the feedback controls exactly when
\* its chunk has response_complete and a feedback endpoint is configured, and
\* no message shows the controls when no endpoint is configured.
C28_ControlsPerRender ==
  /\ \A t \in TaskSet :
        Rendered(t) =>
           (tasks[t].view <=> (tasks[t].chunk.response_complete /\ feedback_endpoint))
  /\ \A h \in 1..Len(messages) :
        messages[h].view => feedback_endpoint

\* without an endpoint a completed response was rendered without the controls
\* after a chunk of the response was sent
C28_Witness ==
  /\ ~feedback_endpoint
  /\ \E a, b \in TaskSet :
        /\ a < b /\ Uuid(a) = Uuid(b)
        /\ SentOk(a) /\ ~tasks[a].chunk.response_complete
        /\ tasks[b].chunk.response_complete
        /\ tasks[b].call = "edit" /\ tasks[b].pc = "done" /\ ~tasks[b].view
        /\ ~messages[tasks[b].handle].view

\* ---------------------------------------------------------------- C29
\* the channel is a text channel or a thread
Routable(channel) == channel \in {"TextChannel", "Thread"}

\* the chunks invoke has handed on: queued or taken by a task
HandedOn == Len(input_queue) + Len(tasks)

StalledInCall ==
  \E a \in TaskSet :
     /\ Uuid(a) = Stalled /\ tasks[a].pc = "send"
     /\ states[tasks[a].state].locked

\* a last chunk of response u is on the queue
LastQueued(u) ==
  \E i \in 1..Len(input_queue) : input_queue[i].uuid = u /\ input_queue[i].last_chunk

\* a last chunk of response u has been sent or edited onto its message
LastRendered(u) ==
  \E t \in TaskSet, h \in 1..Len(messages) :
     /\ Uuid(t) = u /\ tasks[t].chunk.last_chunk
     /\ Rendered(t) /\ tasks[t].handle = h
     /\ messages[h].uuid = u /\ messages[h].content = Full(Text(t))

\* C30: whenever a task of one response is suspended in a platform call that
\* never returns, holding the lock of its response, and a last chunk of another
\* response is on the queue, that chunk is dequeued, takes the lock of its own
\* response and is rendered.
C30_NoCrossBlocking ==
  \A u \in Uuids \ {Stalled} :
     (StalledInCall /\ LastQueued(u)) ~> (StalledInCall /\ LastRendered(u))

\* the stalled task still holds its lock in the call while the other response
\* shows its last chunk
C30_Witness ==
  /\ StalledInCall
  /\ \E u \in Uuids \ {Stalled} :
        /\ LastRendered(u)
        /\ \E t \in TaskSet : Uuid(t) = u /\ tasks[t].call = "edit" /\ tasks[t].pc = "done"

\* ------------------------------------------- do_messages, one step at a time
\* The broker thread puts messages while do_messages runs, so here the loop of
\* do_messages is taken one get_nowait() at a time.  do_messages is the
\* callback 0 of the event loop: it stands at the head of the ready queue while
\* it runs, which keeps every other callback waiting, and it is out of the
\* queue while it sleeps.
Poller == 0

\* the longest queue looked at (queue.Queue itself has no limit)
MaxQueue == 2

DrainInputs ==
  {Chunk(1, Str("Hel"), NoFiles, FALSE, FALSE),
   Chunk(1, Str("Hello"), OneFile, TRUE, FALSE),
   Chunk(2, Str("Hi"), NoFiles, TRUE, FALSE)}

\* DiscordOutput.invoke and send_message, for a producer that never stops: the
\* messages after the MaxChunks-th are not told apart
PutAny(d) ==
  /\ Len(input_queue) < MaxQueue
  /\ produced' = IF produced < MaxChunks THEN produced + 1 ELSE produced
  /\ input_queue' = Append(input_queue, Invoke(d) @@ [seq |-> produced + 1])
  /\ UNCHANGED otherVars
  /\ UNCHANGED <<feedback_endpoint, ready, tasks, states, state_by_uuid,
                 messages, clock>>

\* asyncio.sleep(0.01) is over: do_messages is runnable again
PollerWakes ==
  /\ \A i \in 1..Len(ready) : ready[i] # Poller
  /\ ready' = Append(ready, Poller)
  /\ UNCHANGED otherVars
  /\ UNCHANGED <<feedback_endpoint, input_queue, produced, tasks, states,
                 state_by_uuid, messages, clock>>

\* one round of the loop with a message on the queue: get_nowait() returned it
\* and create_task was called; the loop goes round without a suspension point,
\* so do_messages stays the running callback.  The tasks after the
\* MaxChunks-th are created like the others and not recorded.
PollerGets ==
  /\ ready # <<>> /\ Head(ready) = Poller
  /\ input_queue # <<>>
  /\ input_queue' = Tail(input_queue)
  /\ IF Len(tasks) < MaxChunks
     THEN /\ tasks' = Append(tasks, NewTask(Head(input_queue)))
          /\ ready' = Append(ready, Len(tasks) + 1)
     ELSE UNCHANGED <<tasks, ready>>
  /\ UNCHANGED otherVars
  /\ UNCHANGED <<feedback_endpoint, produced, states, state_by_uuid, messages, clock>>

\* get_nowait() raised queue.Empty: await asyncio.sleep(0.01)
PollerSleeps ==
  /\ ready # <<>> /\ Head(ready) = Poller
  /\ input_queue = <<>>
  /\ ready' = Tail(ready)
  /\ UNCHANGED otherVars
  /\ UNCHANGED <<feedback_endpoint, input_queue, produced, tasks, states,
                 state_by_uuid, messages, clock>>

PollerStep == PollerWakes \/ PollerGets \/ PollerSleeps

\* the loop runs the send_message task at the head of its ready queue
TaskStep ==
  \/ \E t \in TaskIds : TaskStart(t, 0)
  \/ \E t \in TaskIds : LockResume(t, 0)
  \/ \E t \in TaskIds : SendResume(t)
  \/ \E t \in TaskIds : EditResume(t)
  \/ \E t \in TaskIds : AddFilesResume(t)

NextDrain ==
  \/ \E d \in DrainInputs : PutAny(d)
  \/ PollerStep
  \/ TaskStep
  \/ PlatformReturns

\* The loop never leaves a runnable callback unrun, be it do_messages or a
\* send_message task, and every platform call returns.  Nothing is assumed of
\* the producer.
SpecDrain ==
  /\ Init /\ [][NextDrain]_vars
  /\ WF_vars(PollerStep) /\ SF_vars(TaskStep) /\ WF_vars(PlatformReturns)

\* ---- C31
\* C31: every message put on the queue is dequeued, exactly one task is created
\* for it, and that task runs send_message (it gets beyond its creation),
\* whatever the producer does, while every platform call returns.  Messages
\* are told apart by their sequence number.
C31_QueueDrained ==
  LET Queued(n) == \E i \in 1..Len(input_queue) : input_queue[i].seq = n
      TasksFor(n) == {t \in TaskSet : tasks[t].chunk.seq = n}
  IN /\ \A n \in 1..MaxChunks : [](Cardinality(TasksFor(n)) <= 1)
     /\ \A n \in 1..MaxChunks : Queued(n) ~> (TasksFor(n) # {})
     /\ \A n \in 1..MaxChunks :
           Queued(n) ~> (\E t \in TasksFor(n) : tasks[t].pc # "ready")

\* ---- C32
\* the renders that attached controls to the message h
ControlsAttached(h) ==
  {t \in TaskSet : Rendered(t) /\ tasks[t].view /\ tasks[t].handle = h
                   /\ tasks[t].pc \notin {"send", "edit"} /\ tasks[t].ok}

\* the clicks on a feedback button of message h that reached a feedback handler
Dispatched(h) ==
  {i \in IxSet : FeedbackClick(i) /\ interactions[i].event.message = h
                 /\ CalledBack(i) # {}}

\* C32: of the clicks on the feedback buttons of one message whose controls
\* were attached once, at most one is dispatched to a feedback handler.
C32_NoDuplicateDispatch ==
  \A h \in 1..Len(messages) :
     Cardinality(ControlsAttached(h)) = 1 => Cardinality(Dispatched(h)) <= 1

\* ---- C33
\* the interaction was ignored: its task made no call (no edit of the message,
\* no handler) and did not end in an exception
Ignored(i) ==
  /\ interactions[i].calls = <<>>
  /\ interactions[i].pc \in {"ready", "done"}

\* C33: an interaction that is not a component interaction of button type, and
\* a button interaction whose custom id is neither thumbs_up nor thumbs_down,
\* is ignored: no handler is called, no exception is raised and the message it
\* came from is not edited.
C33_UnknownIgnored ==
  \A i \in IxSet :
     LET x == interactions[i].event
     IN /\ ~(x.type = "component" /\ x.has_data /\ x.component_type = "button")
              => Ignored(i)
        /\ x.custom_id \notin {"thumbs_up", "thumbs_down"} => Ignored(i)

\* ------------------------------------------------------ the feedback modal
\* The user submits the modal that the thumbs-down click j opened, with the
\* text value in its input: the client creates a task running
\* Feedback.on_submit.  A modal is submitted once at most.
ModalSubmit(j, value) ==
  [type |-> "modal_submit", has_data |-> TRUE, component_type |-> "none",
   custom_id |-> "none", message |-> 0, modal |-> j, value |-> value]

IsSubmit(x) == x.type = "modal_submit"

\* the values of the optional input
FeedbackValues == {"", "too slow"}

SubmitEvent(j, value) ==
  /\ Len(interactions) < MaxInteractions
  /\ j \in 1..Len(interactions)
  /\ ~IsSubmit(interactions[j].event)
  /\ interactions[j].pc = "done"
  /\ \E k \in 1..Len(interactions[j].calls) :
        interactions[j].calls[k] = "thumbs_down_callback"
  /\ \A i \in 1..Len(interactions) :
        IsSubmit(interactions[i].event) => interactions[i].event.modal # j
  /\ interactions' =
       Append(interactions, [event |-> ModalSubmit(j, value), pc |-> "submit",
                             ok |-> TRUE, calls |-> <<>>])
  /\ ready' = Append(ready, 0 - (Len(interactions) + 1))
  /\ UNCHANGED <<slackVars, inbound, invocation>>
  /\ UNCHANGED <<feedback_endpoint, input_queue, produced, tasks, states,
                 state_by_uuid, messages, clock>>

\* on_submit up to await interaction.response.send_message('Thanks ...')
OnSubmit(i) ==
  /\ ready # <<>> /\ Head(ready) = 0 - i
  /\ i \in 1..Len(interactions) /\ interactions[i].pc = "submit"
  /\ interactions' = [interactions EXCEPT ![i].pc = "ack",
                                          ![i].calls = Append(@, "response.send_message")]
  /\ ready' = Tail(ready)
  /\ UNCHANGED <<slackVars, inbound, invocation>>
  /\ UNCHANGED <<feedback_endpoint, input_queue, produced, tasks, states,
                 state_by_uuid, messages, clock>>

\* the acknowledgement was sent, or the call raises
AckReturns(i, ok) ==
  /\ i \in 1..Len(interactions) /\ interactions[i].pc = "ack"
  /\ interactions' = [interactions EXCEPT ![i].pc = "ack_ret", ![i].ok = ok]
  /\ ready' = Append(ready, 0 - i)
  /\ UNCHANGED <<slackVars, inbound, invocation>>
  /\ UNCHANGED <<feedback_endpoint, input_queue, produced, tasks, states,
                 state_by_uuid, messages, clock>>

\* rest_body: feedback_reason is set only for a non-empty value
RestBody(value) ==
  [feedback |-> value, interface |-> "discord", data |-> "{}",
   feedback_reason |-> IF value # "" THEN value ELSE "absent"]

\* Modal._scheduled_task: an exception of on_submit is handed to on_error,
\* which awaits interaction.response.send_message('Oops! ...')
OnError(x) ==
  [x EXCEPT !.pc = "respond", !.ok = TRUE, !.calls = Append(@, "on_error")]

\* (variant: requests.post outside the try)
PostUncaught(x, posted) ==
  LET y == [x EXCEPT !.calls = Append(@, "requests.post"), !.body = RestBody(x.event.value)]
  IN IF posted THEN [y EXCEPT !.pc = "done"] ELSE OnError([y EXCEPT !.ok = FALSE])

\* on_submit below the acknowledgement: rest_body, then requests.post inside
\* try/except Exception, which prints the failure; requests.post is a blocking
\* call, so there is no suspension point up to the return
Post(x, posted) ==
  LET y == [x EXCEPT !.calls = Append(@, "requests.post"), !.body = RestBody(x.event.value)]
  IN IF posted THEN [y EXCEPT !.pc = "done"]
     ELSE [y EXCEPT !.pc = "done", !.ok = FALSE, !.calls = Append(@, "print")]

\* on_submit resumes after the acknowledgement: the POST, or the exception of
\* the acknowledgement ends on_submit and on_error runs
OnSubmitResume(i, posted) ==
  /\ ready # <<>> /\ Head(ready) = 0 - i
  /\ i \in 1..Len(interactions) /\ interactions[i].pc = "ack_ret"
  /\ interactions' =
       [interactions EXCEPT ![i] =
          IF interactions[i].ok THEN Post(interactions[i] @@ [body |-> <<>>], posted)
          ELSE OnError(interactions[i])]
  /\ ready' = Tail(ready)
  /\ UNCHANGED <<slackVars, inbound, invocation>>
  /\ UNCHANGED <<feedback_endpoint, input_queue, produced, tasks, states,
                 state_by_uuid, messages, clock>>

\* one response, completed (twice at most)
FeedbackChunks == {Chunk(1, None, NoFiles, FALSE, TRUE)}

NextFeedback ==
  \/ \E d \in FeedbackChunks : PutShort(d)
  \/ DoMessages
  \/ \E t \in TaskIds : TaskStart(t, 0)
  \/ \E t \in TaskIds : LockResume(t, 0)
  \/ \E t \in TaskIds : SendReturns(t, TRUE)
  \/ \E t \in TaskIds : EditReturns(t, TRUE)
  \/ \E t \in TaskIds : SendResume(t)
  \/ \E t \in TaskIds : EditResume(t)
  \/ \E id \in FeedbackButtons, h \in 1..MaxShortRun : InteractionEvent(ButtonClick(id, h))
  \/ \E i \in InteractionIds : OnInteraction(i)
  \/ \E i \in InteractionIds, ok \in BOOLEAN : MessageEditReturns(i, ok)
  \/ \E i \in InteractionIds : OnInteractionResume(i)
  \/ \E i \in InteractionIds, ok \in BOOLEAN : ResponseReturns(i, ok)
  \/ \E i \in InteractionIds : CallbackResume(i)
  \/ \E j \in InteractionIds, value \in FeedbackValues : SubmitEvent(j, value)
  \/ \E i \in InteractionIds : OnSubmit(i)
  \/ \E i \in InteractionIds, ok \in BOOLEAN : AckReturns(i, ok)
  \/ \E i \in InteractionIds, posted \in BOOLEAN : OnSubmitResume(i, posted)

SpecFeedback == Init /\ [][NextFeedback]_vars

\* ---- C34
\* the tasks running Feedback.on_submit
Submits == {i \in IxSet : IsSubmit(interactions[i].event)}

\* the places of the feedback POSTs among the calls of task i
Posts(i) == {k \in 1..Len(interactions[i].calls) : interactions[i].calls[k] = "requests.post"}

\* the task has returned or ended in an exception
Over(i) == interactions[i].pc \in {"done", "failed"}

\* C34 as stated: every submission of the feedback form sends the
\* acknowledgement first and then attempts exactly one POST.
C34_ExactlyOnePost ==
  \A i \in Submits :
     Over(i) => /\ Posts(i) = {2}
                /\ interactions[i].calls[1] = "response.send_message"

\* the acknowledgement precedes the POST, and a submission whose
\* acknowledgement was sent attempts exactly one POST, whose failure ends
\* on_submit normally, with no on_error
C34_AckThenPost ==
  \A i \in Submits :
     /\ \A k \in Posts(i) :
           k = 2 /\ interactions[i].calls[1] = "response.send_message"
     /\ Cardinality(Posts(i)) <= 1
     /\ (Over(i) /\ \A k \in 1..Len(interactions[i].calls) :
                       interactions[i].calls[k] # "on_error")
           => /\ Posts(i) = {2}
              /\ interactions[i].pc = "done"
     /\ \A k \in 1..Len(interactions[i].calls) :
           interactions[i].calls[k] = "on_error" => k = 2 /\ Posts(i) = {}

\* on_error runs only when the acknowledgement raised: a POST, failed or not,
\* never leads to it
C34_PostCaught ==
  \A i \in Submits :
     ( /\ interactions[i].pc = "ack_ret"
       /\ interactions[i].ok
       /\ interactions'[i].pc # "ack_ret" )
     => /\ interactions'[i].pc = "done"
        /\ Posts(i)' = {2}

\* a thumbs-up click calls thumbs_up_callback only, which awaits the ephemeral
\* send_message; no form is opened for it, so no submission refers to it
C34_ThumbsUp ==
  \A i \in IxSet :
     (~IsSubmit(interactions[i].event) /\ interactions[i].event.custom_id = "thumbs_up")
     => /\ \A k \in 1..Len(interactions[i].calls) :
              interactions[i].calls[k] \in {"message.edit", "thumbs_up_callback"}
        /\ \A s \in Submits : interactions[s].event.modal # i

\* C34: on submission of the thumbs-down form the acknowledgement is sent
\* before the POST.  If sending it succeeded exactly one POST is attempted,
\* and whether the POST fails or not on_submit returns normally; if sending it
\* raised, no POST is attempted and on_error answers.  Thumbs-up sends its
\* acknowledgement and opens no form.
C34_FeedbackSubmission ==
  [](C34_AckThenPost /\ C34_ThumbsUp) /\ [][C34_PostCaught]_vars

\* a submission whose POST failed has returned normally, after the
\* acknowledgement and one POST
C34_Witness ==
  \E i \in Submits :
     /\ interactions[i].pc = "done"
     /\ interactions[i].calls = <<"response.send_message", "requests.post", "print">>
     /\ interactions[i].body.feedback_reason = "too slow"

\* ==================================================== the Discord receiver
\* DiscordReceiver.handle_event, for one message that on_message let through.
\* Sizes are in bytes, the two caps in MiB.
MIB == 1048576

\* the longest list of attachments looked at
MaxAttachments == 3

AttachmentSizes == {0, MIB - 1, MIB, MIB + 1, 2 * MIB}
Caps == {1, 2}

\* the lists of attachments of a message, by their sizes
AttachmentLists ==
  UNION {[1..n -> AttachmentSizes] : n \in 0..MaxAttachments}

\* the receiver as init_discord_receiver constructs it
InitReceiver ==
  /\ feedback_endpoint = FALSE
  /\ input_queue = <<>>
  /\ produced = 0
  /\ ready = <<>>
  /\ tasks = <<>>
  /\ states = <<>>
  /\ state_by_uuid = [u \in Uuids |-> 0]
  /\ messages = <<>>
  /\ clock = StartTime
  /\ interactions = <<>>
  /\ request = [form |-> <<>>, task_id |-> <<>>]
  /\ blocks = <<>>
  /\ registry = FALSE
  /\ submission = [pc |-> "idle"]
  /\ feedback = [pc |-> "idle"]
  /\ invocation = [pc |-> "idle"]
  /\ inbound \in [pc : {"idle"}, max_file_size : Caps, max_total_file_size : Caps]

\* handle_event is entered: files = [], total_file_size = 0
OnMessage(attachments, is_thread) ==
  /\ inbound.pc = "idle"
  /\ inbound' = [inbound EXCEPT !.pc = "loop"]
                  @@ [attachments |-> attachments, is_thread |-> is_thread,
                      k |-> 1, total_file_size |-> 0, files |-> <<>>,
                      payload |-> <<>>]
  /\ UNCHANGED <<slackVars, feedback_endpoint, input_queue, produced, ready, tasks,
                 states, state_by_uuid, messages, clock, interactions, invocation>>

\* (variant: a single attachment is never too large)
TooLargeNever(size, max_file_size) == FALSE

\* size > self.max_file_size * 1024 * 1024
TooLarge(size, max_file_size) == size > max_file_size * MIB

\* total_file_size > self.max_total_file_size * 1024 * 1024
OverTotal(total, max_total_file_size) == total > max_total_file_size * MIB

\* one round of the loop over message.attachments: the size is added to the
\* total first, then the attachment is skipped, or the loop is left, or the
\* file is downloaded (requests.get may raise) and appended
AttachmentStep(ok) ==
  /\ inbound.pc = "loop"
  /\ inbound.k <= Len(inbound.attachments)
  /\ LET size == inbound.attachments[inbound.k]
         total == inbound.total_file_size + size
         x == [inbound EXCEPT !.total_file_size = total, !.k = @ + 1]
     IN inbound' =
          IF TooLarge(size, inbound.max_file_size) THEN x
          ELSE IF OverTotal(total, inbound.max_total_file_size)
          THEN [x EXCEPT !.pc = "thread", !.k = inbound.k]
          ELSE IF ~ok THEN [x EXCEPT !.pc = "failed", !.k = inbound.k]
          ELSE [x EXCEPT !.files = Append(@, [name |-> inbound.k, size |-> size])]
  /\ UNCHANGED <<slackVars, feedback_endpoint, input_queue, produced, ready, tasks,
                 states, state_by_uuid, messages, clock, interactions, invocation>>

\* the loop is over
LoopEnds ==
  /\ inbound.pc = "loop"
  /\ inbound.k > Len(inbound.attachments)
  /\ inbound' = [inbound EXCEPT !.pc = "thread"]
  /\ UNCHANGED <<slackVars, feedback_endpoint, input_queue, produced, ready, tasks,
                 states, state_by_uuid, messages, clock, interactions, invocation>>

\* below the loop: a message outside a thread gets a thread of its own (await
\* message.create_thread, which may raise); the payload with the files is put
\* on the receiver's queue; await message.channel.typing()
Forward(ok) ==
  /\ inbound.pc = "thread"
  /\ inbound' =
       IF ~inbound.is_thread /\ ~ok THEN [inbound EXCEPT !.pc = "failed"]
       ELSE [inbound EXCEPT !.pc = "typing", !.payload = <<[files |-> inbound.files]>>]
  /\ UNCHANGED <<slackVars, feedback_endpoint, input_queue, produced, ready, tasks,
                 states, state_by_uuid, messages, clock, interactions, invocation>>

TypingReturns(ok) ==
  /\ inbound.pc = "typing"
  /\ inbound' = [inbound EXCEPT !.pc = IF ok THEN "done" ELSE "failed"]
  /\ UNCHANGED <<slackVars, feedback_endpoint, input_queue, produced, ready, tasks,
                 states, state_by_uuid, messages, clock, interactions, invocation>>

NextReceiver ==
  \/ \E a \in AttachmentLists, th \in BOOLEAN : OnMessage(a, th)
  \/ \E ok \in BOOLEAN : AttachmentStep(ok)
  \/ LoopEnds
  \/ \E ok \in BOOLEAN : Forward(ok)
  \/ \E ok \in BOOLEAN : TypingReturns(ok)

SpecReceiver == InitReceiver /\ [][NextReceiver]_vars

\* ---- C35
RECURSIVE SumSizes(_)
SumSizes(files) ==
  IF files = <<>> THEN 0 ELSE Head(files).size + SumSizes(Tail(files))

\* the files of the forwarded payload, <<>> while nothing is forwarded
Forwarded == IF inbound.pc \in {"typing", "done", "failed"} /\ inbound.payload # <<>>
             THEN inbound.payload[1].files ELSE <<>>

C35_CapsHold ==
  inbound.pc # "idle" =>
     /\ \A i \in 1..Len(inbound.files) :
           inbound.files[i].size <= inbound.max_file_size * 1024 * 1024
     /\ SumSizes(inbound.files) <= inbound.max_total_file_size * 1024 * 1024
     /\ \A i \in 1..Len(Forwarded) :
           Forwarded[i].size <= inbound.max_file_size * 1024 * 1024
     /\ SumSizes(Forwarded) <= inbound.max_total_file_size * 1024 * 1024

\* once the sizes of the attachments seen so far exceed the cap on the total,
\* no step downloads a file
C35_NoDownloadBeyond ==
  ( /\ inbound.pc = "loop"
    /\ inbound.total_file_size > inbound.max_total_file_size * 1024 * 1024 )
  => inbound'.files = inbound.files

\* C35: every file of the forwarded payload has a size of at most max_file_size
\* MiB, the sizes of the forwarded files add up to at most max_total_file_size
\* MiB, and once the running total of the attachment sizes is above that cap
\* no further attachment of the message is downloaded.
C35_AttachmentCaps == []C35_CapsHold /\ [][C35_NoDownloadBeyond]_vars

\* a message was forwarded under caps of 1 MiB a file and 2 MiB in all: its
\* first attachment was too large and skipped, the second was downloaded and
\* the third, small enough by itself, was left out because of the total
C35_Witness ==
  /\ inbound.pc = "done"
  /\ inbound.max_file_size = 1 /\ inbound.max_total_file_size = 2
  /\ Len(inbound.attachments) = 3
  /\ Len(Forwarded) = 1
  /\ inbound.attachments[1] > MIB
  /\ Forwarded[1].name = 2
  /\ inbound.attachments[3] <= MIB

\* ---- C36
\* C36: the first chunk processed for a response id, if its text is not empty
\* and its channel is a text channel or a thread, makes a send call in the very
\* run in which it enters __send_message, at whatever time that is and whether
\* or not it is terminal.
C36_FirstNeverThrottled ==
  \A t \in TaskSet :
     ( /\ \A a \in TaskSet : a < t => tasks[a].chunk.uuid # tasks[t].chunk.uuid
       /\ tasks[t].pc \notin {"ready", "acquire", "woken"}
       /\ ConcatText(Messages(tasks[t].chunk.text)) # ""
       /\ tasks[t].chunk.channel \in {"TextChannel", "Thread"} )
     => /\ tasks[t].call = "send"
        /\ tasks[t].body # ""

\* a first chunk that is not terminal was sent at a time later than the start,
\* within one interval of it
C36_Witness ==
  \E t \in TaskSet :
     /\ \A a \in TaskSet : a < t => Uuid(a) # Uuid(t)
     /\ ~Terminal(t)
     /\ tasks[t].call = "send" /\ tasks[t].pc = "done"
     /\ tasks[t].now = StartTime + THROTTLE_INTERVAL
     /\ t > 1

\* ---- C37
\* the task of interaction i ended in the AssertionError of thumbs_down_callback:
\* it failed inside the callback with no platform call having raised
AssertFailed(i) ==
  /\ interactions[i].pc = "failed"
  /\ interactions[i].ok
  /\ interactions[i].calls # <<>>
  /\ interactions[i].calls[Len(interactions[i].calls)] = "thumbs_down_callback"

C37_EndpointSet ==
  /\ \A h \in 1..Len(messages) : messages[h].view => feedback_endpoint
  /\ \A i \in IxSet :
        ( /\ interactions[i].event.type = "component"
          /\ interactions[i].event.custom_id = "thumbs_down"
          /\ interactions[i].event.message > 0 )
        => /\ ~AssertFailed(i)
           /\ interactions[i].calls # <<>> => feedback_endpoint

\* C37: a message shows feedback controls only if the endpoint is configured,
\* the endpoint never changes, and the task of a thumbs-down click on a message
\* of the sender never ends in the assertion of thumbs_down_callback.
C37_AssertionHolds ==
  []C37_EndpointSet /\ [][feedback_endpoint' = feedback_endpoint]_vars

\* a thumbs-down click on a message of the sender has opened the modal
C37_Witness ==
  \E i \in IxSet :
     /\ interactions[i].event.custom_id = "thumbs_down"
     /\ interactions[i].event.message > 0
     /\ interactions[i].calls = <<"message.edit", "thumbs_down_callback">>
     /\ interactions[i].pc = "done" /\ interactions[i].ok
     /\ feedback_endpoint

\* ======================================================= DiscordOutput.invoke
\* the data of a call with all the fields invoke reads and hands on
Data(text, status_update, complete, last, first, feedback_data, channel) ==
  [Chunk(1, text, OneFile, last, complete)
     EXCEPT !.status_update = status_update, !.channel = channel]
  @@ [streaming |-> TRUE, ts |-> "1700000000.5", ack_msg_ts |-> "none",
      first_chunk |-> first, feedback_data |-> feedback_data]

InvokeInputs ==
  {Data(text, su, rc, last, first, fd, ch) :
     text \in {None, Str("Hi")}, su \in BOOLEAN, rc \in BOOLEAN,
     last \in BOOLEAN, first \in BOOLEAN, fd \in {"{}", "{\"block_id\": \"b1\"}"},
     ch \in {"TextChannel", "missing"}}

\* the dict invoke returns, with the fields the sender does not read as well
InvokeResult(d) ==
  Invoke(d) @@ [streaming |-> d.streaming, thread_ts |-> d.ts,
                ack_msg_ts |-> d.ack_msg_ts, first_chunk |-> d.first_chunk,
                feedback_data |-> d.feedback_data]

\* one call of invoke: it raises, or discards the message for want of a
\* channel and returns None, or returns the dict, which DiscordOutput.send_message
\* puts on the queue (the fields the sender reads)
InvokeCall(d) ==
  /\ produced < MaxShortRun
  /\ produced' = produced + 1
  /\ invocation' =
       IF InvokeRaises(d) THEN [pc |-> "raised", data |-> d]
       ELSE IF d.channel = "missing" THEN [pc |-> "discarded", data |-> d]
       ELSE [pc |-> "returned", data |-> d, result |-> InvokeResult(d)]
  /\ input_queue' =
       IF InvokeRaises(d) \/ d.channel = "missing" THEN input_queue
       ELSE Append(input_queue, Invoke(d) @@ [seq |-> produced + 1])
  /\ UNCHANGED <<slackVars, interactions, inbound>>
  /\ UNCHANGED <<feedback_endpoint, ready, tasks, states, state_by_uuid,
                 messages, clock>>

NextInvoke == \E d \in InvokeInputs : InvokeCall(d)

SpecInvoke == Init /\ [][NextInvoke]_vars

\* ---- C38
\* C38: in the dict invoke returns, a chunk with response_complete has
\* status_update true and the text ':checkered_flag: Response complete'
\* whatever its text was; otherwise a chunk with status_update has its text
\* prefixed with ':thinking_face: '; otherwise text and status_update are the
\* input's.  uuid, channel, files, last_chunk, first_chunk and feedback_data
\* are the input's in every case, and so is the chunk put on the queue.
C38_InvokeRewrites ==
  invocation.pc = "returned" =>
     LET d == invocation.data
         r == invocation.result
         q == input_queue[Len(input_queue)]
     IN /\ d.response_complete =>
              /\ r.status_update = TRUE
              /\ r.text = [kind |-> "str", parts |-> <<":checkered_flag: Response complete">>]
        /\ (~d.response_complete /\ d.status_update) =>
              /\ r.status_update = TRUE
              /\ r.text = [kind |-> "str", parts |-> <<":thinking_face: " \o d.text.parts[1]>>]
        /\ (~d.response_complete /\ ~d.status_update) =>
              /\ r.status_update = FALSE
              /\ r.text = d.text
        /\ r.uuid = d.uuid /\ r.channel = d.channel /\ r.files = d.files
        /\ r.last_chunk = d.last_chunk /\ r.first_chunk = d.first_chunk
        /\ r.feedback_data = d.feedback_data
        /\ r.response_complete = d.response_complete
        /\ q.text = r.text /\ q.status_update = r.status_update
        /\ q.uuid = d.uuid /\ q.channel = d.channel /\ q.files = d.files
        /\ q.last_chunk = d.last_chunk

\* a completed chunk that was no status update and had a text of its own was
\* returned with the marker
C38_Witness ==
  /\ invocation.pc = "returned"
  /\ invocation.data.response_complete /\ ~invocation.data.status_update
  /\ invocation.data.text = Str("Hi")
  /\ invocation.result.text = Str(COMPLETE_TEXT)
  /\ invocation.result.status_update
  /\ invocation.result.first_chunk /\ invocation.result.feedback_data # "{}"

\* ---- C39
\* C39: a call of handle_form_submission makes ack its first call, and makes
\* it once; when the button value is not valid JSON, or holds no task_id, or
\* no SlackInput is registered, the call never hands an event to
\* SlackInput.handle_event and never posts the confirmation.
C39_ErrorPaths ==
  submission.pc \notin {"idle", "start"} =>
     LET calls == submission.calls
         value == Loads(submission.body.value)
         names == {calls[i].call : i \in 1..Len(calls)}
     IN /\ calls # <<>>
        /\ calls[1].call = "ack"
        /\ \A i \in 2..Len(calls) : calls[i].call # "ack"
        /\ ( \/ ~value.ok
             \/ value.kind # "object"
             \/ DictGet(value, "task_id").kind = "none"
             \/ DictGet(value, "task_id") = [kind |-> "str", s |-> ""]
             \/ ~registry )
           => "handle_event" \notin names /\ "chat_postMessage" \notin names

\* a submission with a task_id was acknowledged and its user looked up, and
\* the call returned for want of a SlackInput, nothing forwarded or posted
C39_Witness ==
  /\ submission.pc = "done"
  /\ ~registry
  /\ Len(submission.calls) = 2
  /\ submission.calls[1].call = "ack"
  /\ submission.calls[2].call = "users_info"
  /\ submission.task_id # ""

\* ==================================================== the Slack feedback flow
\* One message with the thumbs block, as the output component posted it, and
\* the calls of the two feedback handlers on it.  feedback holds the
\* configuration (feedback_enabled, feedback_post_url set or not), the block
\* the message shows, and the handler call in progress or last made: its
\* handler, its arguments, whether _find_previous_message found the message,
\* and the calls it has made.
InitFeedbackFlow ==
  /\ feedback_endpoint = FALSE
  /\ input_queue = <<>>
  /\ produced = 0
  /\ ready = <<>>
  /\ tasks = <<>>
  /\ states = <<>>
  /\ state_by_uuid = [u \in Uuids |-> 0]
  /\ messages = <<>>
  /\ clock = StartTime
  /\ interactions = <<>>
  /\ request = [form |-> <<>>, task_id |-> <<>>]
  /\ blocks = <<>>
  /\ registry = FALSE
  /\ submission = [pc |-> "idle"]
  /\ inbound = [pc |-> "idle"]
  /\ invocation = [pc |-> "idle"]
  /\ feedback \in [pc : {"idle"}, feedback_enabled : BOOLEAN, feedback_post_url : BOOLEAN,
                   shown : {"thumbs_up_down"}, handler : {"none"}, feedback : {"none"},
                   reason : {"none"}, found : {FALSE}, calls : {<<>>},
                   thread_ts : {"none", "1234567890.123456"}, user : {"none"}]

\* the users who can press the buttons
SlackUsers == {"U12345678", "U87654321"}

\* _find_previous_message: the history of the channel for a message outside a
\* thread, the replies of the thread otherwise
FindCall(thread_ts) ==
  [call |-> IF thread_ts = "none" THEN "conversations_history" ELSE "conversations_replies"]

\* no handler call is in progress
HandlerFree == feedback.pc \in {"idle", "done", "failed"}

\* thumbs_up_down_feedback_handler up to the Slack call of
\* _find_previous_message: the user pressed a thumbs button of the message
ThumbsAction(fb, user) ==
  /\ HandlerFree
  /\ feedback.shown = "thumbs_up_down"
  /\ feedback' =
       LET x == [feedback EXCEPT !.handler = "thumbs", !.feedback = fb, !.user = user,
                                 !.reason = "none", !.found = FALSE,
                                 !.calls = <<[call |-> "ack"]>>]
       IN IF ~feedback.feedback_enabled \/ ~feedback.feedback_post_url
          THEN [x EXCEPT !.pc = "done"]
          ELSE [x EXCEPT !.pc = "find",
                         !.calls = Append(@, FindCall(feedback.thread_ts))]
  /\ UNCHANGED <<request, blocks, registry, submission, discordVars>>

\* the values of the reason input when the user presses enter ("none": the
\* payload has no value for it)
Reasons == {"none", "", "too slow"}

\* feedback_reason_handler up to the Slack call of _find_previous_message: the
\* user pressed enter in the reason input that the message shows
ReasonAction(reason, user) ==
  /\ HandlerFree
  /\ feedback.shown = "reason"
  /\ feedback' = [feedback EXCEPT !.handler = "reason", !.feedback = "thumbs_down",
                                  !.reason = reason, !.found = FALSE,
                                  !.user = user, !.pc = "find",
                                  !.calls = <<[call |-> "ack"], FindCall(feedback.thread_ts)>>]
  /\ UNCHANGED <<request, blocks, registry, submission, discordVars>>

\* the block the handler writes: thanks, or for a thumbs down on a message
\* that was found, the reason input
NextBlock(handler, fb, found) ==
  IF handler = "thumbs" /\ found /\ fb # "thumbs_up" THEN "reason" ELSE "thanks"

\* _find_previous_message returns the ts of the message or None, or the Slack
\* call raises; then chat_postMessage (not found) or chat_update (found)
FindReturns(found, ok) ==
  /\ feedback.pc = "find"
  /\ feedback' =
       IF ~ok THEN [feedback EXCEPT !.pc = "failed"]
       ELSE [feedback EXCEPT
               !.pc = "write", !.found = found,
               !.calls = Append(@, [call |-> IF found THEN "chat_update" ELSE "chat_postMessage",
                                    thread_ts |-> feedback.thread_ts,
                                    block |-> NextBlock(feedback.handler, feedback.feedback, found)])]
  /\ UNCHANGED <<request, blocks, registry, submission, discordVars>>

\* _send_feedback_rest_post: rest_body; feedback_reason is set only for a
\* reason that is not empty
FeedbackRestBody(fb, reason, user) ==
  [call |-> "requests.post", user |-> user, feedback |-> fb, interface |-> "slack",
   feedback_reason |-> IF reason \notin {"none", ""} THEN reason ELSE "absent"]

\* (variant: the thumbs handler posts whatever it wrote)
SendsPostAlways(handler, fb, found) == TRUE

\* thumbs_up_down_feedback_handler: feedback == "thumbs_up" or prev_message_ts
\* is None; feedback_reason_handler posts in every case
SendsPost(handler, fb, found) == handler = "reason" \/ fb = "thumbs_up" \/ ~found

\* chat_update or chat_postMessage returns (an update changes what the message
\* shows) or raises; then the REST POST where the handler makes one, whose
\* failure is caught and logged; the handler returns
WriteReturns(ok, posted) ==
  /\ feedback.pc = "write"
  /\ feedback' =
       IF ~ok THEN [feedback EXCEPT !.pc = "failed"]
       ELSE LET x == [feedback EXCEPT
                        !.pc = "done",
                        !.shown = IF feedback.found
                                  THEN NextBlock(feedback.handler, feedback.feedback, TRUE)
                                  ELSE @]
            IN IF ~SendsPost(feedback.handler, feedback.feedback, feedback.found) THEN x
               ELSE IF posted
               THEN [x EXCEPT !.calls = Append(@, FeedbackRestBody(feedback.feedback, feedback.reason, feedback.user))]
               ELSE [x EXCEPT !.calls = Append(Append(@, FeedbackRestBody(feedback.feedback, feedback.reason, feedback.user)),
                                               [call |-> "logger.error"])]
  /\ UNCHANGED <<request, blocks, registry, submission, discordVars>>

NextFeedbackFlow ==
  \/ \E fb \in {"thumbs_up", "thumbs_down"}, user \in SlackUsers : ThumbsAction(fb, user)
  \/ \E reason \in Reasons, user \in SlackUsers : ReasonAction(reason, user)
  \/ \E found \in BOOLEAN, ok \in BOOLEAN : FindReturns(found, ok)
  \/ \E ok \in BOOLEAN, posted \in BOOLEAN : WriteReturns(ok, posted)

SpecFeedbackFlow == InitFeedbackFlow /\ [][NextFeedbackFlow]_vars

\* ---- C40
\* the places of the REST POSTs and of the message writes among the calls of
\* the handler call
RestPosts == {i \in 1..Len(feedback.calls) : feedback.calls[i].call = "requests.post"}
Writes == {i \in 1..Len(feedback.calls) :
             feedback.calls[i].call \in {"chat_update", "chat_postMessage"}}

Configured == feedback.feedback_enabled /\ feedback.feedback_post_url

\* the handler call is over, by a return or by an exception
CallOver == feedback.handler # "none" /\ feedback.pc \in {"done", "failed"}

\* C40 as stated: with feedback enabled and a URL set, a thumbs-up call makes
\* exactly one POST, a thumbs-down call that found the message makes none, and
\* a call of feedback_reason_handler makes exactly one.
C40_PostsAsStated ==
  (CallOver /\ Configured) =>
     /\ (feedback.handler = "thumbs" /\ feedback.feedback = "thumbs_up") =>
           Cardinality(RestPosts) = 1
     /\ (feedback.handler = "thumbs" /\ feedback.feedback = "thumbs_down" /\ feedback.found) =>
           RestPosts = {}
     /\ feedback.handler = "reason" => Cardinality(RestPosts) = 1

\* every call acknowledges first; a POST is made once at most, after the write
\* to Slack; without the configuration the thumbs handler does nothing else
C40_Order ==
  feedback.handler # "none" =>
     /\ feedback.calls[1].call = "ack"
     /\ Cardinality(RestPosts) <= 1
     /\ \A p \in RestPosts : \E w \in Writes : w < p
     /\ (feedback.handler = "thumbs" /\ ~Configured) =>
           feedback.calls = <<[call |-> "ack"]>> /\ feedback.pc = "done"

\* what a call that returned has done
C40_Returned ==
  (feedback.handler # "none" /\ feedback.pc = "done" /\ Configured) =>
     /\ feedback.handler = "thumbs" =>
           /\ Cardinality(RestPosts) = 1
                <=> (feedback.feedback = "thumbs_up" \/ ~feedback.found)
           /\ \A p \in RestPosts :
                 /\ feedback.calls[p].feedback = feedback.feedback
                 /\ feedback.calls[p].feedback_reason = "absent"
     /\ (feedback.handler = "thumbs" /\ feedback.feedback = "thumbs_down" /\ feedback.found) =>
           /\ \A w \in Writes : /\ feedback.calls[w].call = "chat_update"
                                /\ feedback.calls[w].block = "reason"
           /\ feedback.shown = "reason"
     /\ feedback.handler = "reason" =>
           /\ Cardinality(RestPosts) = 1
           /\ \A p \in RestPosts :
                 /\ feedback.calls[p].feedback = "thumbs_down"
                 /\ feedback.reason \notin {"none", ""} =>
                       feedback.calls[p].feedback_reason = feedback.reason

\* a call that a Slack call ended with an exception has made no POST
C40_Raised == (feedback.handler # "none" /\ feedback.pc = "failed") => RestPosts = {}

\* C40: in each handler call the POST comes after the write to Slack and is
\* made once at most.  A thumbs call that returns has posted exactly when the
\* feedback is thumbs_up or the message was not found; for a thumbs down on a
\* message that was found it has put the reason input in place of the message
\* and posted nothing, and the call of feedback_reason_handler that follows
\* and returns has posted once, with the reason.  A call in which a Slack call
\* raises posts nothing.  With feedback disabled or no URL the thumbs handler
\* acknowledges and does nothing else.
C40_FeedbackFlow == C40_Order /\ C40_Returned /\ C40_Raised

\* the reason handler has returned: it wrote the thanks over the reason input
\* and then posted the thumbs down with the reason
C40_Witness ==
  /\ feedback.handler = "reason" /\ feedback.pc = "done"
  /\ feedback.shown = "thanks"
  /\ Len(feedback.calls) = 4
  /\ feedback.calls[3].call = "chat_update"
  /\ feedback.calls[4] = [call |-> "requests.post", user |-> feedback.user,
                          feedback |-> "thumbs_down", interface |-> "slack",
                          feedback_reason |-> "too slow"]

====
